---- MODULE Spec2Model ----
(***************************************************************************)
(* Model of the graph-backed recommendation core of NetflixRecommendation. *)
(*                                                                         *)
(* Units and encodings                                                     *)
(*   - a rating is an integer number of half stars: 3.5 is 7, 5.0 is 10;   *)
(*   - a real score is an exact fraction [num, den] with den >= 1, and     *)
(*     Python's None for a score or an average is the fraction with        *)
(*     den = 0;                                                            *)
(*   - a string that the code takes apart (a genre string, a genre         *)
(*     filter) is a sequence of one-character strings; None and the empty  *)
(*     string, both falsy in every test the code makes of them, are <<>>;  *)
(*   - the node name "u_7" is <<"u", 7>> and "m_7" is <<"m", 7>>;          *)
(*   - an optional set argument is <<>> (None) or <<S>>.                   *)
(***************************************************************************)
EXTENDS Integers, Sequences, FiniteSets, TLC

VARIABLES
    pc,                  \* "load": module code has read the CSVs; "serve": startup is complete
    RATINGS_DF,          \* the unfiltered interaction table, in file order
    MOVIES_DF,           \* the catalog, in file order
    G,                   \* the bipartite graph
    MAPPINGS,            \* the four id <-> node mappings
    USER_NODES,          \* user nodes in node order
    MOVIE_NODES,         \* movie nodes in node order
    MOVIE_LIKERS_CACHE,  \* movie node -> set of user nodes
    MOVIE_GENRES_CACHE,  \* movie node -> set of genre tags
    RATINGS_LOOKUP,      \* userId -> (movieId -> rating)
    call,                \* the last query: its name and arguments
    ret,                 \* what the last query returned or raised
    session,             \* the Flask session of the one browser: key -> value
    frame                \* the frame of a call of recommend_for_user in progress

vars == <<pc, RATINGS_DF, MOVIES_DF, G, MAPPINGS, USER_NODES, MOVIE_NODES,
          MOVIE_LIKERS_CACHE, MOVIE_GENRES_CACHE, RATINGS_LOOKUP, call, ret,
          session, frame>>

data == <<RATINGS_DF, MOVIES_DF, G, MAPPINGS, USER_NODES, MOVIE_NODES,
          MOVIE_LIKERS_CACHE, MOVIE_GENRES_CACHE, RATINGS_LOOKUP>>

(***************************************************************************)
(* Bounds of the model.                                                    *)
(***************************************************************************)
\* top_n ranges over -2..MaxTopN
MaxTopN == 3

\* a liked-id list holds at most MaxLiked ids
MaxLiked == 2

\* the activity filter's minimum number of positive ratings (the application
\* passes 10 for catalogs of thousands of movies; the model's catalogs hold 3)
MinLikes == 1

(***************************************************************************)
(* Program constants.                                                      *)
(***************************************************************************)
\* threshold=3.5, in half stars
Threshold == 7

\* the 5.0 of rating_weight = avg_rating / 5.0, in half stars
RatingScale == 10

(***************************************************************************)
(* Generic helpers.                                                        *)
(***************************************************************************)
Range(s) == {s[i] : i \in DOMAIN s}

Min(a, b) == IF a <= b THEN a ELSE b

Max(a, b) == IF a >= b THEN a ELSE b

RECURSIVE SumOver(_, _)
SumOver(S, f) ==
    IF S = {} THEN 0
    ELSE LET x == CHOOSE y \in S : TRUE IN f[x] + SumOver(S \ {x}, f)

\* pandas unique(): the distinct values in order of first appearance
RECURSIVE Unique(_)
Unique(s) ==
    IF s = <<>> THEN <<>>
    ELSE LET front == Unique(SubSeq(s, 1, Len(s) - 1))
             last  == s[Len(s)]
         IN IF last \in Range(front) THEN front ELSE Append(front, last)

\* seq[:n] of Python
PySliceTo(s, n) ==
    IF n >= 0 THEN SubSeq(s, 1, Min(n, Len(s)))
    ELSE SubSeq(s, 1, Max(Len(s) + n, 0))

(***************************************************************************)
(* Fractions.                                                              *)
(***************************************************************************)
Frac(n, d) == [num |-> n, den |-> d]

NoneVal == Frac(0, 0)

IsNone(x) == x.den = 0

Zero == Frac(0, 1)

\* a < b, a = b for fractions with positive denominators
FracLess(a, b) == a.num * b.den < b.num * a.den

FracEq(a, b) == a.num * b.den = b.num * a.den

(***************************************************************************)
(* Strings as sequences of characters.                                     *)
(***************************************************************************)
All == <<"A", "l", "l">>

\* needle in haystack, of Python strings
IsSubstring(needle, hay) ==
    \E i \in 0..(Len(hay) - Len(needle)) :
        \A k \in 1..Len(needle) : hay[i + k] = needle[k]

\* str.split('|') as the set of its pieces
RECURSIVE SplitPipe(_)
SplitPipe(s) ==
    IF \A i \in DOMAIN s : s[i] # "|" THEN {s}
    ELSE LET i == CHOOSE j \in DOMAIN s : s[j] = "|" /\ \A k \in 1..(j - 1) : s[k] # "|"
         IN {SubSeq(s, 1, i - 1)} \cup SplitPipe(SubSeq(s, i + 1, Len(s)))

(***************************************************************************)
(* Node names.                                                             *)
(***************************************************************************)
UserNode(uid) == <<"u", uid>>

MovieNode(mid) == <<"m", mid>>

\* int(node.split("_")[1])
NodeId(node) == node[2]

(***************************************************************************)
(* The graph: nx.Graph with node attributes and edge weights.              *)
(*   nodes  : the nodes in insertion order (the order G.nodes iterates)    *)
(*   attr   : node -> [bipartite, genres]; bipartite is "none" and genres  *)
(*            <<>> for an attribute the node does not have                 *)
(*   adj    : node -> set of neighbours                                    *)
(*   weight : edge {a, b} -> weight                                        *)
(***************************************************************************)
Ext(f, k, v) == [x \in (DOMAIN f) \cup {k} |-> IF x = k THEN v ELSE f[x]]

EmptyMap == [x \in {} |-> 0]

EmptyGraph == [nodes |-> <<>>, attr |-> EmptyMap, adj |-> EmptyMap, weight |-> EmptyMap]

NoAttrs == [bipartite |-> "none", genres |-> <<>>]

HasNode(g, n) == n \in DOMAIN g.attr

\* G.add_node(n, **attrs)
AddNode(g, n, attrs) ==
    IF HasNode(g, n)
    THEN [g EXCEPT !.attr = Ext(g.attr, n, attrs)]
    ELSE [g EXCEPT !.nodes = Append(g.nodes, n),
                   !.attr  = Ext(g.attr, n, attrs),
                   !.adj   = Ext(g.adj, n, {})]

\* G.add_edge(u, v, weight=w): endpoints that are not nodes yet are added
\* without attributes
AddEdge(g, u, v, w) ==
    LET g1 == IF HasNode(g, u) THEN g ELSE AddNode(g, u, NoAttrs)
        g2 == IF HasNode(g1, v) THEN g1 ELSE AddNode(g1, v, NoAttrs)
    IN [g2 EXCEPT !.adj    = [n \in DOMAIN g2.adj |->
                                 IF n = u THEN g2.adj[n] \cup {v}
                                 ELSE IF n = v THEN g2.adj[n] \cup {u}
                                 ELSE g2.adj[n]],
                  !.weight = Ext(g2.weight, {u, v}, w)]

\* G.neighbors(n)
Neighbors(g, n) == g.adj[n]

\* G.nodes[n].get("bipartite")
Bipartite(g, n) == g.attr[n].bipartite

\* [n for n, d in G.nodes(data=True) if d.get("bipartite") == part]
NodesOfPart(g, part) == SelectSeq(g.nodes, LAMBDA n : Bipartite(g, n) = part)

\* nx.single_source_shortest_path_length(G, source, cutoff=2), as the set of
\* nodes it reports at distance exactly d, d in 0..2
NodesAtDistance(g, source, d) ==
    LET level1 == Neighbors(g, source) \ {source}
        level2 == (UNION {Neighbors(g, n) : n \in level1}) \ ({source} \cup level1)
    IN CASE d = 0 -> {source}
         [] d = 1 -> level1
         [] d = 2 -> level2

(***************************************************************************)
(* src/src/graph.py                                                        *)
(***************************************************************************)
Column(table, field) == [i \in DOMAIN table |-> table[i][field]]

\* downsample_users(ratings, min_likes, threshold, sample_n=None)
downsample_users(ratings, min_likes, threshold) ==
    LET positive == SelectSeq(ratings, LAMBDA r : r.rating >= threshold)
        counts   == [uid \in Range(Column(positive, "userId")) |->
                        Len(SelectSeq(positive, LAMBDA r : r.userId = uid))]
        eligible_users == {uid \in DOMAIN counts : counts[uid] >= min_likes}
    IN SelectSeq(positive, LAMBDA r : r.userId \in eligible_users)

RECURSIVE AddUserNodes(_, _)
AddUserNodes(g, uids) ==
    IF uids = <<>> THEN g
    ELSE AddUserNodes(AddNode(g, UserNode(Head(uids)), [bipartite |-> "user", genres |-> <<>>]),
                      Tail(uids))

\* movies_index.loc[mid].get("genres")
CatalogGenres(movies, mid) ==
    LET i == CHOOSE j \in DOMAIN movies : movies[j].movieId = mid IN movies[i].genres

RECURSIVE AddMovieNodes(_, _, _)
AddMovieNodes(g, mids, movies) ==
    IF mids = <<>> THEN g
    ELSE AddMovieNodes(AddNode(g, MovieNode(Head(mids)),
                               [bipartite |-> "movie", genres |-> CatalogGenres(movies, Head(mids))]),
                       Tail(mids), movies)

RECURSIVE AddRatingEdges(_, _)
AddRatingEdges(g, rows) ==
    IF rows = <<>> THEN g
    ELSE AddRatingEdges(AddEdge(g, UserNode(Head(rows).userId), MovieNode(Head(rows).movieId),
                                Head(rows).rating),
                        Tail(rows))

BuildMappings(g) ==
    LET users  == Range(NodesOfPart(g, "user"))
        movies == Range(NodesOfPart(g, "movie"))
    IN [user_id_to_node  |-> [uid \in {NodeId(n) : n \in users} |->
                                 CHOOSE n \in users : NodeId(n) = uid],
        node_to_user_id  |-> [n \in users |-> NodeId(n)],
        movie_id_to_node |-> [mid \in {NodeId(n) : n \in movies} |->
                                 CHOOSE n \in movies : NodeId(n) = mid],
        node_to_movie_id |-> [n \in movies |-> NodeId(n)]]

\* mutant: rating > threshold in place of rating >= threshold
build_bipartite_graph_StrictThreshold(ratings, movies, threshold) ==
    LET g1 == AddUserNodes(EmptyGraph, Unique(Column(ratings, "userId")))
        g2 == AddMovieNodes(g1, Unique(Column(movies, "movieId")), movies)
        g3 == AddRatingEdges(g2, SelectSeq(ratings, LAMBDA r : r.rating > threshold))
    IN [G |-> g3, mappings |-> BuildMappings(g3)]

\* build_bipartite_graph(ratings, movies, threshold) -> (G, mappings)
build_bipartite_graph(ratings, movies, threshold) ==
    LET g1 == AddUserNodes(EmptyGraph, Unique(Column(ratings, "userId")))
        g2 == AddMovieNodes(g1, Unique(Column(movies, "movieId")), movies)
        g3 == AddRatingEdges(g2, SelectSeq(ratings, LAMBDA r : r.rating >= threshold))
    IN [G |-> g3, mappings |-> BuildMappings(g3)]

\* precompute_movie_likers(G)
precompute_movie_likers(g) ==
    [m \in Range(NodesOfPart(g, "movie")) |->
        {nbr \in Neighbors(g, m) : Bipartite(g, nbr) = "user"}]

\* precompute_movie_genres(G)
precompute_movie_genres(g) ==
    [m \in Range(NodesOfPart(g, "movie")) |->
        IF g.attr[m].genres # <<>> THEN SplitPipe(g.attr[m].genres) ELSE {}]

\* mutant: the first row of a movie wins
LastRating_FirstWins(rows, mid) ==
    LET i == CHOOSE j \in DOMAIN rows :
                 rows[j].movieId = mid /\ \A k \in 1..(j - 1) : rows[k].movieId # mid
    IN rows[i].rating

\* dict(zip(user_ratings['movieId'], user_ratings['rating'])): the last row
\* of a movie wins
LastRating(rows, mid) ==
    LET i == CHOOSE j \in DOMAIN rows :
                 rows[j].movieId = mid /\ \A k \in (j + 1)..Len(rows) : rows[k].movieId # mid
    IN rows[i].rating

\* precompute_ratings_lookup(ratings_df)
precompute_ratings_lookup(ratings_df) ==
    [uid \in Range(Column(ratings_df, "userId")) |->
        LET user_ratings == SelectSeq(ratings_df, LAMBDA r : r.userId = uid)
        IN [mid \in Range(Column(user_ratings, "movieId")) |-> LastRating(user_ratings, mid)]]

(***************************************************************************)
(* src/src/scoring.py                                                      *)
(* A call returns [err, val]: err is "none" and val the value returned, or *)
(* err names the exception raised.                                         *)
(***************************************************************************)
Ok(v) == [err |-> "none", val |-> v]

Raise(e) == [err |-> e, val |-> <<>>]

NoneArg == <<>>

\* mutant: d <= 2 in place of d == 2
TwoHopUsers_WithinTwo(g, user_node) ==
    {n \in NodesAtDistance(g, user_node, 0) \cup NodesAtDistance(g, user_node, 1)
            \cup NodesAtDistance(g, user_node, 2) : Bipartite(g, n) = "user"}

\* {n for n, d in lengths_u.items() if d == 2 and G.nodes[n].get("bipartite") == "user"}
TwoHopUsers(g, user_node) ==
    {n \in NodesAtDistance(g, user_node, 2) : Bipartite(g, n) = "user"}

\* {n for n in G.neighbors(movie_node) if G.nodes[n].get("bipartite") == "user"}
LikersOf(g, movie_node) ==
    {n \in Neighbors(g, movie_node) : Bipartite(g, n) = "user"}

\* mutant: the division without the test of union_size
jaccard_2hop_score_NoZeroGuard(user_node, movie_node, g, users_2hop_arg, likers_arg) ==
    IF ~HasNode(g, user_node) \/ ~HasNode(g, movie_node) THEN Raise("KeyError")
    ELSE LET users_2hop == IF users_2hop_arg = NoneArg THEN TwoHopUsers(g, user_node)
                           ELSE users_2hop_arg[1]
             likers     == IF likers_arg = NoneArg THEN LikersOf(g, movie_node)
                           ELSE likers_arg[1]
             intersection == users_2hop \cap likers
             union_size == Cardinality(users_2hop) + Cardinality(likers)
                           - Cardinality(intersection)
         IN IF union_size = 0 THEN Raise("ZeroDivisionError")
            ELSE Ok(Frac(Cardinality(intersection), union_size))

\* jaccard_2hop_score(user_node, movie_node, G, users_2hop=None, likers=None)
jaccard_2hop_score(user_node, movie_node, g, users_2hop_arg, likers_arg) ==
    IF ~HasNode(g, user_node) \/ ~HasNode(g, movie_node) THEN Raise("KeyError")
    ELSE LET users_2hop == IF users_2hop_arg = NoneArg THEN TwoHopUsers(g, user_node)
                           ELSE users_2hop_arg[1]
             likers     == IF likers_arg = NoneArg THEN LikersOf(g, movie_node)
                           ELSE likers_arg[1]
             intersection == users_2hop \cap likers
             union_size == Cardinality(users_2hop) + Cardinality(likers)
                           - Cardinality(intersection)
         IN IF union_size = 0 THEN Ok(Zero)
            ELSE Ok(Frac(Cardinality(intersection), union_size))

\* mutant: the likers counted without intersecting them with the 2-hop users
common_neighbors_count_AllLikers(user_node, movie_node, g, users_2hop_arg, likers_arg) ==
    IF ~HasNode(g, user_node) \/ ~HasNode(g, movie_node) THEN Raise("KeyError")
    ELSE LET likers == IF likers_arg = NoneArg THEN LikersOf(g, movie_node)
                       ELSE likers_arg[1]
         IN Ok(Cardinality(likers))

\* common_neighbors_count(user_node, movie_node, G, users_2hop=None, likers=None)
common_neighbors_count(user_node, movie_node, g, users_2hop_arg, likers_arg) ==
    IF ~HasNode(g, user_node) \/ ~HasNode(g, movie_node) THEN Raise("KeyError")
    ELSE LET users_2hop == IF users_2hop_arg = NoneArg THEN TwoHopUsers(g, user_node)
                           ELSE users_2hop_arg[1]
             likers     == IF likers_arg = NoneArg THEN LikersOf(g, movie_node)
                           ELSE likers_arg[1]
         IN Ok(Cardinality(users_2hop \cap likers))

\* the letters str.lower() changes, and what it changes them to
UpperLetters ==
    << "A", "B", "C", "D", "E", "F", "G", "H", "I", "J", "K", "L", "M",
       "N", "O", "P", "Q", "R", "S", "T", "U", "V", "W", "X", "Y", "Z" >>

LowerLetters ==
    << "a", "b", "c", "d", "e", "f", "g", "h", "i", "j", "k", "l", "m",
       "n", "o", "p", "q", "r", "s", "t", "u", "v", "w", "x", "y", "z" >>

\* method.lower()
Lower(str) ==
    [i \in DOMAIN str |->
        IF \E k \in DOMAIN UpperLetters : UpperLetters[k] = str[i]
        THEN LowerLetters[CHOOSE k \in DOMAIN UpperLetters : UpperLetters[k] = str[i]]
        ELSE str[i]]

\* the method names of score
Jaccard == << "j", "a", "c", "c", "a", "r", "d" >>

Cn == << "c", "n" >>

CommonNeighbors ==
    << "c", "o", "m", "m", "o", "n", "_", "n", "e", "i", "g", "h", "b", "o", "r", "s" >>

\* scoring.score(user_node, movie_node, G, method="jaccard"); float(n) of a
\* count is n/1
scoring_score(user_node, movie_node, g, method) ==
    LET m == Lower(method)
    IN IF m = Jaccard THEN jaccard_2hop_score(user_node, movie_node, g, NoneArg, NoneArg)
       ELSE IF m \in {Cn, CommonNeighbors}
       THEN LET count == common_neighbors_count(user_node, movie_node, g, NoneArg, NoneArg)
            IN IF count.err # "none" THEN count ELSE Ok(Frac(count.val, 1))
       ELSE Raise("ValueError")

\* batch_score(user_node, candidate_movies, G, method="jaccard") -> {movie_node: score}
batch_score(user_node, candidate_movies, g, method) ==
    IF ~HasNode(g, user_node) THEN Raise("KeyError")
    ELSE LET users_2hop == TwoHopUsers(g, user_node)
         IN Ok([movie_node \in Range(candidate_movies) |->
                   IF ~HasNode(g, movie_node) THEN Zero
                   ELSE LET likers == LikersOf(g, movie_node)
                            intersection == users_2hop \cap likers
                            union_size == Cardinality(users_2hop) + Cardinality(likers)
                                          - Cardinality(intersection)
                        IN IF Lower(method) = Jaccard
                           THEN IF union_size > 0
                                THEN Frac(Cardinality(intersection), union_size) ELSE Zero
                           ELSE Frac(Cardinality(intersection), 1)])

(***************************************************************************)
(* src/app.py: the two recommendation entry points.                        *)
(***************************************************************************)
\* genre_filter and genre_filter != "All"
GenreFilterActive(genre_filter) == genre_filter # <<>> /\ genre_filter # All

\* get_likers_of_movie_node(m_node): MOVIE_LIKERS_CACHE.get(m_node, set())
get_likers_of_movie_node(m_node) ==
    IF m_node \in DOMAIN MOVIE_LIKERS_CACHE THEN MOVIE_LIKERS_CACHE[m_node] ELSE {}

\* MAPPINGS["node_to_movie_id"].get(m); every caller passes a movie node
MovieIdOf(m) == MAPPINGS.node_to_movie_id[m]

\* float(rows["rating"].mean()) over the rows of RATINGS_DF of one movie and a
\* set of users; None when there is no such row
MeanRatingInTable(movie_id, user_ids) ==
    LET rows == SelectSeq(RATINGS_DF, LAMBDA r : r.movieId = movie_id /\ r.userId \in user_ids)
    IN IF rows = <<>> THEN NoneVal
       ELSE Frac(SumOver(DOMAIN rows, [i \in DOMAIN rows |-> rows[i].rating]), Len(rows))

\* the candidates of get_recommendations_for_user_node
UserCandidates(user_node, genre_filter) ==
    LET seen == {nbr \in Neighbors(G, user_node) : Bipartite(G, nbr) = "movie"}
    IN SelectSeq(MOVIE_NODES, LAMBDA m :
           /\ m \notin seen
           /\ GenreFilterActive(genre_filter) =>
                  /\ G.attr[m].genres # <<>>
                  /\ IsSubstring(genre_filter, G.attr[m].genres))

\* the record get_recommendations_for_user_node appends for candidate m
UserRecord(user_node, m, two_hop_users) ==
    LET jacc       == jaccard_2hop_score(user_node, m, G, NoneArg, NoneArg).val
        likers     == get_likers_of_movie_node(m)
        supporters == two_hop_users \cap likers
        movie_id   == MovieIdOf(m)
        supporter_ids == {MAPPINGS.node_to_user_id[u] : u \in supporters}
        avg_rating == IF supporters # {} THEN MeanRatingInTable(movie_id, supporter_ids)
                      ELSE NoneVal
    IN [movie_node  |-> m,
        movie_id    |-> movie_id,
        genres      |-> G.attr[m].genres,
        jaccard     |-> jacc,
        common_2hop |-> Cardinality(supporters),
        avg_rating  |-> avg_rating]

\* _sort_key(a) < _sort_key(b) for the keys (-jaccard, -common_2hop)
UserKeyLess(a, b) ==
    \/ FracLess(b.jaccard, a.jaccard)
    \/ FracEq(a.jaccard, b.jaccard) /\ a.common_2hop > b.common_2hop

\* results.sort(key=_sort_key): list.sort is stable
RECURSIVE SortUserResults(_)
SortUserResults(s) ==
    IF s = <<>> THEN <<>>
    ELSE LET sorted == SortUserResults(SubSeq(s, 1, Len(s) - 1))
             x      == s[Len(s)]
             after  == {i \in DOMAIN sorted : UserKeyLess(x, sorted[i])}
             p      == IF after = {} THEN Len(sorted) + 1
                       ELSE CHOOSE i \in after : \A j \in after : i <= j
         IN SubSeq(sorted, 1, p - 1) \o <<x>> \o SubSeq(sorted, p, Len(sorted))

\* results, as the loop over the candidates leaves it
UserResults(user_node, genre_filter) ==
    LET candidates    == UserCandidates(user_node, genre_filter)
        two_hop_users == TwoHopUsers(G, user_node)
    IN [i \in DOMAIN candidates |-> UserRecord(user_node, candidates[i], two_hop_users)]

\* get_recommendations_for_user_node(user_node, top_n, genre_filter)
get_recommendations_for_user_node(user_node, top_n, genre_filter) ==
    IF ~HasNode(G, user_node) THEN Raise("NetworkXError")
    ELSE Ok(PySliceTo(SortUserResults(UserResults(user_node, genre_filter)), top_n))

\* mutant: final_score = rating_weight, the score dropped
Reweight_RatingOnly(score, avg_rating) ==
    Frac(avg_rating.num, avg_rating.den * RatingScale)

\* score * rating_weight, with rating_weight = avg_rating / 5.0
Reweight(score, avg_rating) ==
    Frac(score.num * avg_rating.num, score.den * avg_rating.den * RatingScale)

\* -a["score"] < -b["score"]
LikedKeyLess(a, b) == FracLess(b.score, a.score)

\* results.sort(key=lambda x: -x["score"]): list.sort is stable
RECURSIVE SortLikedResults(_)
SortLikedResults(s) ==
    IF s = <<>> THEN <<>>
    ELSE LET sorted == SortLikedResults(SubSeq(s, 1, Len(s) - 1))
             x      == s[Len(s)]
             after  == {i \in DOMAIN sorted : LikedKeyLess(x, sorted[i])}
             p      == IF after = {} THEN Len(sorted) + 1
                       ELSE CHOOSE i \in after : \A j \in after : i <= j
         IN SubSeq(sorted, 1, p - 1) \o <<x>> \o SubSeq(sorted, p, Len(sorted))

\* [f"m_{mid}" for mid in liked_movie_ids if f"m_{mid}" in MOVIE_LIKERS_CACHE]
SelectedMovieNodes(liked_movie_ids) ==
    LET named == [i \in DOMAIN liked_movie_ids |-> MovieNode(liked_movie_ids[i])]
    IN SelectSeq(named, LAMBDA m : m \in DOMAIN MOVIE_LIKERS_CACHE)

\* user_set: the union of the cached likers of the selected movie nodes
ReferenceUsers(selected_movie_nodes) ==
    UNION {MOVIE_LIKERS_CACHE[m] : m \in Range(selected_movie_nodes)}

\* mutant: the selected movies are not excluded
LikedCandidates_KeepsSelected(selected_set, genre_filter) ==
    IF GenreFilterActive(genre_filter)
    THEN SelectSeq(MOVIE_NODES, LAMBDA m :
             genre_filter \in (IF m \in DOMAIN MOVIE_GENRES_CACHE
                               THEN MOVIE_GENRES_CACHE[m] ELSE {}))
    ELSE MOVIE_NODES

\* the candidate list of get_recommendations_for_liked_movies
LikedCandidates(selected_set, genre_filter) ==
    IF GenreFilterActive(genre_filter)
    THEN SelectSeq(MOVIE_NODES, LAMBDA m :
             /\ m \notin selected_set
             /\ genre_filter \in (IF m \in DOMAIN MOVIE_GENRES_CACHE
                                  THEN MOVIE_GENRES_CACHE[m] ELSE {}))
    ELSE SelectSeq(MOVIE_NODES, LAMBDA m : m \notin selected_set)

\* mutant: the intersection is not subtracted from union_size
RawScore_UnionCountsTwice(user_set, likers, intersection, algorithm) ==
    IF algorithm = "cn" THEN Frac(Cardinality(intersection), 1)
    ELSE LET union_size == Cardinality(user_set) + Cardinality(likers)
         IN IF union_size > 0 THEN Frac(Cardinality(intersection), union_size) ELSE Zero

\* the raw score of a candidate with a non-empty intersection
RawScore(user_set, likers, intersection, algorithm) ==
    IF algorithm = "cn" THEN Frac(Cardinality(intersection), 1)
    ELSE LET union_size == Cardinality(user_set) + Cardinality(likers)
                           - Cardinality(intersection)
         IN IF union_size > 0 THEN Frac(Cardinality(intersection), union_size) ELSE Zero

\* the average of the supporters' ratings found in RATINGS_LOOKUP
LookupAverage(movie_id, intersection) ==
    IF movie_id # 0 /\ intersection # {}
    THEN LET supporter_ids == {MAPPINGS.node_to_user_id[u] :
                                  u \in intersection \cap DOMAIN MAPPINGS.node_to_user_id}
             rated == {uid \in supporter_ids :
                          /\ uid \in DOMAIN RATINGS_LOOKUP
                          /\ movie_id \in DOMAIN RATINGS_LOOKUP[uid]}
         IN IF rated # {}
            THEN Frac(SumOver(rated, [uid \in rated |-> RATINGS_LOOKUP[uid][movie_id]]),
                      Cardinality(rated))
            ELSE NoneVal
    ELSE NoneVal

\* mutant: avg_rating > rating_limit in place of avg_rating < rating_limit
BelowRatingLimit_Flipped(avg_rating, rating_limit) ==
    rating_limit > 0 /\ (IsNone(avg_rating) \/ avg_rating.num > rating_limit * avg_rating.den)

\* rating_limit > 0.0 and (avg_rating is None or avg_rating < rating_limit)
BelowRatingLimit(avg_rating, rating_limit) ==
    rating_limit > 0 /\ (IsNone(avg_rating) \/ avg_rating.num < rating_limit * avg_rating.den)

\* whether the loop body appends a record for candidate m
LikedKeeps(m, user_set, rating_limit) ==
    LET likers       == get_likers_of_movie_node(m)
        intersection == user_set \cap likers
    IN /\ intersection # {}
       /\ ~BelowRatingLimit(LookupAverage(MovieIdOf(m), intersection), rating_limit)

\* the record the loop body appends for candidate m
LikedRecord(m, user_set, algorithm, prioritize_rating) ==
    LET likers       == get_likers_of_movie_node(m)
        intersection == user_set \cap likers
        score        == RawScore(user_set, likers, intersection, algorithm)
        movie_id     == MovieIdOf(m)
        avg_rating   == LookupAverage(movie_id, intersection)
        final_score  == IF prioritize_rating /\ ~IsNone(avg_rating)
                        THEN Reweight(score, avg_rating) ELSE score
    IN [movie_node  |-> m,
        movie_id    |-> movie_id,
        genres      |-> G.attr[m].genres,
        jaccard     |-> IF algorithm = "jaccard" THEN score ELSE NoneVal,
        common_2hop |-> Cardinality(intersection),
        avg_rating  |-> avg_rating,
        score       |-> final_score]

\* results, as the loop over the candidates leaves it
LikedResults(liked_movie_ids, genre_filter, rating_limit, algorithm, prioritize_rating) ==
    LET selected_movie_nodes == SelectedMovieNodes(liked_movie_ids)
        user_set   == ReferenceUsers(selected_movie_nodes)
        candidates == LikedCandidates(Range(selected_movie_nodes), genre_filter)
        kept       == SelectSeq(candidates, LAMBDA m : LikedKeeps(m, user_set, rating_limit))
    IN [i \in DOMAIN kept |-> LikedRecord(kept[i], user_set, algorithm, prioritize_rating)]

\* mutant: MOVIE_LIKERS_CACHE[m_node] is read for every liked id, so an id
\* without a movie node raises KeyError
get_recommendations_for_liked_movies_IndexesEveryId(liked_movie_ids, top_n, genre_filter, rating_limit, algorithm, prioritize_rating) ==
    IF \E i \in DOMAIN liked_movie_ids :
           MovieNode(liked_movie_ids[i]) \notin DOMAIN MOVIE_LIKERS_CACHE
    THEN Raise("KeyError")
    ELSE IF ReferenceUsers(SelectedMovieNodes(liked_movie_ids)) = {} THEN Ok(<<>>)
    ELSE Ok(PySliceTo(SortLikedResults(LikedResults(liked_movie_ids, genre_filter,
                          rating_limit, algorithm, prioritize_rating)), top_n))

\* get_recommendations_for_liked_movies(liked_movie_ids, top_n, genre_filter,
\*                                      rating_limit, algorithm, prioritize_rating)
get_recommendations_for_liked_movies(liked_movie_ids, top_n, genre_filter, rating_limit, algorithm, prioritize_rating) ==
    IF ReferenceUsers(SelectedMovieNodes(liked_movie_ids)) = {} THEN Ok(<<>>)
    ELSE Ok(PySliceTo(SortLikedResults(LikedResults(liked_movie_ids, genre_filter,
                          rating_limit, algorithm, prioritize_rating)), top_n))

(***************************************************************************)
(* src/web/app.py: the uncached get_recommendations_for_liked_movies.      *)
(***************************************************************************)
\* genre_filter and genre_filter != "All" and (not genres or genre_filter not in str(genres))
WebGenreRejects(m, genre_filter) ==
    /\ GenreFilterActive(genre_filter)
    /\ \/ G.attr[m].genres = <<>>
       \/ ~IsSubstring(genre_filter, G.attr[m].genres)

\* the score of a candidate
WebRawScore(user_set, likers, algorithm) ==
    IF algorithm = "cn" THEN Frac(Cardinality(user_set \cap likers), 1)
    ELSE IF Cardinality(user_set \cup likers) > 0
         THEN Frac(Cardinality(user_set \cap likers), Cardinality(user_set \cup likers))
         ELSE Zero

WebAverage(m, intersection) ==
    IF intersection # {}
    THEN MeanRatingInTable(MovieIdOf(m), {MAPPINGS.node_to_user_id[u] : u \in intersection})
    ELSE NoneVal

\* whether the loop body appends a record for candidate m
WebKeeps(m, user_set, genre_filter, rating_limit) ==
    LET avg_rating == WebAverage(m, user_set \cap LikersOf(G, m))
    IN /\ ~WebGenreRejects(m, genre_filter)
       /\ ~(~IsNone(avg_rating) /\ avg_rating.num < rating_limit * avg_rating.den)

\* the record the loop body appends for candidate m
WebRecord(m, user_set, algorithm, prioritize_rating) ==
    LET likers       == LikersOf(G, m)
        intersection == user_set \cap likers
        score        == WebRawScore(user_set, likers, algorithm)
        avg_rating   == WebAverage(m, intersection)
        final_score  == IF prioritize_rating /\ ~IsNone(avg_rating)
                        THEN Reweight(score, avg_rating) ELSE score
    IN [movie_node  |-> m,
        movie_id    |-> MovieIdOf(m),
        genres      |-> G.attr[m].genres,
        jaccard     |-> IF algorithm = "jaccard" THEN score ELSE NoneVal,
        common_2hop |-> Cardinality(intersection),
        avg_rating  |-> avg_rating,
        score       |-> final_score]

\* get_recommendations_for_liked_movies of src/web/app.py
web_get_recommendations_for_liked_movies(liked_movie_ids, top_n, genre_filter, rating_limit, algorithm, prioritize_rating) ==
    LET named    == [i \in DOMAIN liked_movie_ids |-> MovieNode(liked_movie_ids[i])]
        selected_movie_nodes == SelectSeq(named, LAMBDA m : m \in Range(MOVIE_NODES))
        user_set == UNION {LikersOf(G, m) : m \in Range(selected_movie_nodes)}
        candidates == SelectSeq(MOVIE_NODES, LAMBDA m : m \notin Range(selected_movie_nodes))
        kept     == SelectSeq(candidates,
                              LAMBDA m : WebKeeps(m, user_set, genre_filter, rating_limit))
        results  == [i \in DOMAIN kept |->
                        WebRecord(kept[i], user_set, algorithm, prioritize_rating)]
    IN Ok(PySliceTo(SortLikedResults(results), top_n))

(***************************************************************************)
(* The inputs: the two CSV files as load_data returns them.                *)
(***************************************************************************)
Row(uid, mid, r) == [userId |-> uid, movieId |-> mid, rating |-> r]

Movie(mid, genres) == [movieId |-> mid, genres |-> genres]

\* a catalog in id order; its last movie has no genres
CatalogA == << Movie(1, <<"a", "|", "b">>), Movie(2, <<"a", "b">>), Movie(3, <<>>) >>

\* a catalog out of id order, with the id 0 and without the id 3
CatalogB == << Movie(2, <<"a">>), Movie(0, <<"b">>), Movie(1, <<"a", "|", "b">>) >>

Catalogs == {CatalogA, CatalogB}

\* what one user rated, as <<movieId, rating>> pairs in file order
RatedBy1 ==
    { << <<1, 8>>, <<2, 8>> >>,
      << <<1, 8>>, <<2, 8>>, <<3, 10>> >>,
      << <<1, 8>>, <<3, 8>>, <<3, 4>> >> }

RatedBy2 ==
    { << <<1, 10>>, <<3, 8>> >>,
      << <<1, 8>>, <<2, 8>> >>,
      << <<2, 6>> >>,
      << >> }

RatedBy3 ==
    { << <<2, 7>> >>,
      << <<0, 8>>, <<1, 8>> >>,
      << <<2, 10>>, <<2, 8>> >>,
      << >> }

UserRows(uid, rated) == [i \in DOMAIN rated |-> Row(uid, rated[i][1], rated[i][2])]

RatingTables ==
    {UserRows(1, r1) \o UserRows(2, r2) \o UserRows(3, r3) :
        r1 \in RatedBy1, r2 \in RatedBy2, r3 \in RatedBy3}

\* the table of the scenario: u1-m1(4.0), u1-m2(4.0), u2-m1(5.0), u2-m3(4.0), u3-m2(3.5)
ScenarioTable ==
    << Row(1, 1, 8), Row(1, 2, 8), Row(2, 1, 10), Row(2, 3, 8), Row(3, 2, 7) >>

(***************************************************************************)
(* The arguments of the queries.                                           *)
(***************************************************************************)
UserIds == {1, 2, 3}

LikedIds == {0, 1, 2, 3}

\* liked-id lists: increasing lists of at most MaxLiked ids
LikedLists ==
    {l \in UNION {[1..n -> LikedIds] : n \in 0..MaxLiked} :
        \A i \in 1..(Len(l) - 1) : l[i] < l[i + 1]}

\* top_n: negative, zero and positive values
TopNs == (-2)..MaxTopN

GenreFilters == {<<>>, All, <<"a">>}

RatingLimits == {0, 8, 9}

\* algorithm: the two names the code tests for and a name it does not know
Algorithms == {"jaccard", "cn", "rwr"}

\* method names: the three of the dispatch table, the long name of "cn", a
\* capitalised name and a name no scoring method has
Rwr == << "r", "w", "r" >>

Methods ==
    { Jaccard, Cn, Rwr, CommonNeighbors,
      << "J", "a", "c", "c", "a", "r", "d" >>, << "x" >> }

NoCall == [op |-> "none"]

\* no call of recommend_for_user is in progress
NoFrame == [state |-> "idle"]

(***************************************************************************)
(* The state machine.                                                      *)
(***************************************************************************)
Init ==
    /\ pc = "load"
    /\ RATINGS_DF \in RatingTables
    /\ MOVIES_DF \in Catalogs
    /\ G = EmptyGraph
    /\ MAPPINGS = BuildMappings(EmptyGraph)
    /\ USER_NODES = <<>>
    /\ MOVIE_NODES = <<>>
    /\ MOVIE_LIKERS_CACHE = EmptyMap
    /\ MOVIE_GENRES_CACHE = EmptyMap
    /\ RATINGS_LOOKUP = EmptyMap
    /\ call = NoCall
    /\ ret = Ok(<<>>)
    /\ session = EmptyMap
    /\ frame = NoFrame

\* validate_graph(G)
validate_graph(g) ==
    IF \E e \in DOMAIN g.weight : \E u, v \in e : u # v /\ Bipartite(g, u) = Bipartite(g, v)
    THEN Raise("AssertionError") ELSE Ok(<<>>)

\* the module code of src/app.py, lines 39 to 72
Startup ==
    /\ pc = "load"
    /\ LET RATINGS_FILTERED == downsample_users(RATINGS_DF, MinLikes, Threshold)
           built == build_bipartite_graph(RATINGS_FILTERED, MOVIES_DF, Threshold)
       IN IF validate_graph(built.G).err # "none"
          THEN /\ pc' = "aborted"
               /\ UNCHANGED <<G, MAPPINGS, USER_NODES, MOVIE_NODES, MOVIE_LIKERS_CACHE,
                              MOVIE_GENRES_CACHE, RATINGS_LOOKUP>>
          ELSE /\ pc' = "serve"
               /\ G' = built.G
               /\ MAPPINGS' = built.mappings
               /\ USER_NODES' = NodesOfPart(built.G, "user")
               /\ MOVIE_NODES' = NodesOfPart(built.G, "movie")
               /\ MOVIE_LIKERS_CACHE' = precompute_movie_likers(built.G)
               /\ MOVIE_GENRES_CACHE' = precompute_movie_genres(built.G)
               /\ RATINGS_LOOKUP' = precompute_ratings_lookup(RATINGS_DF)
    /\ UNCHANGED <<RATINGS_DF, MOVIES_DF, call, ret, session, frame>>

\* a call of get_recommendations_for_user_node
RecommendForUser ==
    /\ pc = "serve"
    /\ call = NoCall
    /\ \E uid \in UserIds, top_n \in TopNs, genre_filter \in GenreFilters :
          /\ call' = [op |-> "user", user_node |-> UserNode(uid), top_n |-> top_n,
                      genre_filter |-> genre_filter]
          /\ ret' = get_recommendations_for_user_node(UserNode(uid), top_n, genre_filter)
    /\ UNCHANGED <<pc, data, session, frame>>

\* mutant: user_set aliases the cached liker set of the first selected movie,
\* so user_set.update(...) writes the union into the cache
RecommendForLiked_UpdatesCache ==
    /\ pc = "serve"
    /\ call = NoCall
    /\ \E liked \in LikedLists, top_n \in TopNs, genre_filter \in GenreFilters,
          rating_limit \in RatingLimits, algorithm \in Algorithms,
          prioritize_rating \in BOOLEAN :
          /\ call' = [op |-> "liked", liked_movie_ids |-> liked, top_n |-> top_n,
                      genre_filter |-> genre_filter, rating_limit |-> rating_limit,
                      algorithm |-> algorithm, prioritize_rating |-> prioritize_rating]
          /\ ret' = get_recommendations_for_liked_movies(liked, top_n, genre_filter,
                        rating_limit, algorithm, prioritize_rating)
          /\ LET selected_movie_nodes == SelectedMovieNodes(liked)
             IN MOVIE_LIKERS_CACHE' =
                    IF selected_movie_nodes = <<>> THEN MOVIE_LIKERS_CACHE
                    ELSE [MOVIE_LIKERS_CACHE EXCEPT ![selected_movie_nodes[1]] =
                             ReferenceUsers(selected_movie_nodes)]
    /\ UNCHANGED <<pc, RATINGS_DF, MOVIES_DF, G, MAPPINGS, USER_NODES, MOVIE_NODES,
                   MOVIE_GENRES_CACHE, RATINGS_LOOKUP, session, frame>>

\* a call of get_recommendations_for_liked_movies of src/app.py
RecommendForLiked ==
    /\ pc = "serve"
    /\ call = NoCall
    /\ \E liked \in LikedLists, top_n \in TopNs, genre_filter \in GenreFilters,
          rating_limit \in RatingLimits, algorithm \in Algorithms,
          prioritize_rating \in BOOLEAN :
          /\ call' = [op |-> "liked", liked_movie_ids |-> liked, top_n |-> top_n,
                      genre_filter |-> genre_filter, rating_limit |-> rating_limit,
                      algorithm |-> algorithm, prioritize_rating |-> prioritize_rating]
          /\ ret' = get_recommendations_for_liked_movies(liked, top_n, genre_filter,
                        rating_limit, algorithm, prioritize_rating)
    /\ UNCHANGED <<pc, data, session, frame>>

\* a call of get_recommendations_for_liked_movies of src/web/app.py
WebRecommendForLiked ==
    /\ pc = "serve"
    /\ call = NoCall
    /\ \E liked \in LikedLists, top_n \in TopNs, genre_filter \in GenreFilters,
          rating_limit \in RatingLimits, algorithm \in Algorithms,
          prioritize_rating \in BOOLEAN :
          /\ call' = [op |-> "web_liked", liked_movie_ids |-> liked, top_n |-> top_n,
                      genre_filter |-> genre_filter, rating_limit |-> rating_limit,
                      algorithm |-> algorithm, prioritize_rating |-> prioritize_rating]
          /\ ret' = web_get_recommendations_for_liked_movies(liked, top_n, genre_filter,
                        rating_limit, algorithm, prioritize_rating)
    /\ UNCHANGED <<pc, data, session, frame>>

\* a call of jaccard_2hop_score and of common_neighbors_count on the same pair
ScorePair ==
    /\ pc = "serve"
    /\ call = NoCall
    /\ \E uid \in UserIds, mid \in LikedIds :
          /\ call' = [op |-> "score", user_node |-> UserNode(uid), movie_node |-> MovieNode(mid)]
          /\ ret' = [jaccard |-> jaccard_2hop_score(UserNode(uid), MovieNode(mid), G,
                                                    NoneArg, NoneArg),
                     cn      |-> common_neighbors_count(UserNode(uid), MovieNode(mid), G,
                                                        NoneArg, NoneArg)]
    /\ UNCHANGED <<pc, data, session, frame>>

\* a call of score
Score ==
    /\ pc = "serve"
    /\ call = NoCall
    /\ \E uid \in UserIds, mid \in LikedIds, method \in Methods :
          /\ call' = [op |-> "score_method", user_node |-> UserNode(uid),
                      movie_node |-> MovieNode(mid), method |-> method]
          /\ ret' = scoring_score(UserNode(uid), MovieNode(mid), G, method)
    /\ UNCHANGED <<pc, data, session, frame>>

\* a call of batch_score
BatchScore ==
    /\ pc = "serve"
    /\ call = NoCall
    /\ \E uid \in UserIds, mids \in LikedLists, method \in Methods :
          /\ call' = [op |-> "batch_score", user_node |-> UserNode(uid),
                      candidate_movies |-> [i \in DOMAIN mids |-> MovieNode(mids[i])],
                      method |-> method]
          /\ ret' = batch_score(UserNode(uid), [i \in DOMAIN mids |-> MovieNode(mids[i])],
                                G, method)
    /\ UNCHANGED <<pc, data, session, frame>>

\* the caller has taken the result; the process waits for the next query
Return ==
    /\ pc = "serve"
    /\ call # NoCall
    /\ call' = NoCall
    /\ ret' = Ok(<<>>)
    /\ UNCHANGED <<pc, data, session, frame>>

(***************************************************************************)
(* src/app.py: the HTTP handlers and the session.  A form is what the      *)
(* browser posts: each field is absent (<<>>) or present (<<value>>).      *)
(***************************************************************************)
\* str.strip() of blanks
RECURSIVE Strip(_)
Strip(s) ==
    IF s # <<>> /\ Head(s) = " " THEN Strip(Tail(s))
    ELSE IF s # <<>> /\ s[Len(s)] = " " THEN Strip(SubSeq(s, 1, Len(s) - 1))
    ELSE s

Digits == << "0", "1", "2", "3", "4", "5", "6", "7", "8", "9" >>

IsDigits(s) == s # <<>> /\ \A i \in DOMAIN s : s[i] \in Range(Digits)

RECURSIVE DecimalValue(_)
DecimalValue(ds) ==
    IF ds = <<>> THEN 0
    ELSE 10 * DecimalValue(SubSeq(ds, 1, Len(ds) - 1))
         + (CHOOSE d \in 0..9 : Digits[d + 1] = ds[Len(ds)])

\* int(s) of a str: blanks around, an optional sign, decimal digits
ParseInt(s) ==
    LET t      == Strip(s)
        signed == t # <<>> /\ Head(t) \in {"-", "+"}
        ds     == IF signed THEN Tail(t) ELSE t
    IN IF ~IsDigits(ds) THEN Raise("ValueError")
       ELSE IF signed /\ Head(t) = "-" THEN Ok(0 - DecimalValue(ds))
       ELSE Ok(DecimalValue(ds))

\* float(s) of a str, in half stars: digits, then nothing, ".0" or ".5"
ParseFloat(s) ==
    LET t     == Strip(s)
        dot   == {i \in DOMAIN t : t[i] = "."}
        whole == IF dot = {} THEN t ELSE SubSeq(t, 1, Len(t) - 2)
        half  == dot # {} /\ t[Len(t)] = "5"
    IN IF /\ IsDigits(whole)
          /\ dot \in {{}, {Len(t) - 1}}
          /\ dot # {} => t[Len(t)] \in {"0", "5"}
       THEN Ok(2 * DecimalValue(whole) + (IF half THEN 1 ELSE 0))
       ELSE Raise("ValueError")

\* str.split(",") as the list of its pieces
RECURSIVE SplitComma(_)
SplitComma(s) ==
    IF \A i \in DOMAIN s : s[i] # "," THEN <<s>>
    ELSE LET i == CHOOSE j \in DOMAIN s : s[j] = "," /\ \A k \in 1..(j - 1) : s[k] # ","
         IN <<SubSeq(s, 1, i - 1)>> \o SplitComma(SubSeq(s, i + 1, Len(s)))

\* [int(x.strip()) for x in liked_movies_str.split(",") if x.strip()]
ParseLikedMovies(liked_movies_str) ==
    LET pieces == SelectSeq(SplitComma(liked_movies_str), LAMBDA x : Strip(x) # <<>>)
    IN IF liked_movies_str = <<>> THEN Ok(<<>>)
       ELSE IF \E i \in DOMAIN pieces : ParseInt(pieces[i]).err # "none"
            THEN Raise("ValueError")
       ELSE Ok([i \in DOMAIN pieces |-> ParseInt(pieces[i]).val])

\* request.form.get(key, default)
FormGet(field, default) == IF field = <<>> THEN default ELSE field[1]

\* session.get(key, default)
SessionGet(key, default) == IF key \in DOMAIN session THEN session[key] ELSE default

\* session[key] = value, for every key of the record stored
SessionStore(sess, stored) ==
    [k \in DOMAIN sess \cup DOMAIN stored |->
        IF k \in DOMAIN stored THEN stored[k] ELSE sess[k]]

\* a < b of Python strs of letters
CodePoint(c) ==
    IF c \in Range(UpperLetters) THEN CHOOSE k \in DOMAIN UpperLetters : UpperLetters[k] = c
    ELSE 26 + (CHOOSE k \in DOMAIN LowerLetters : LowerLetters[k] = c)

StrLess(a, b) ==
    \E i \in 1..(Len(b)) :
        /\ \A k \in 1..(i - 1) : k <= Len(a) /\ a[k] = b[k]
        /\ i > Len(a) \/ CodePoint(a[i]) < CodePoint(b[i])

\* sorted(gset)
RECURSIVE SortedStrs(_)
SortedStrs(S) ==
    IF S = {} THEN <<>>
    ELSE LET least == CHOOSE x \in S : \A y \in S \ {x} : StrLess(x, y)
         IN <<least>> \o SortedStrs(S \ {least})

\* index(): the movie ids of the selector (titles are not modelled), the genre
\* list and the liked ids restored from the session
index ==
    LET movie_options == [i \in DOMAIN MOVIE_NODES |-> MAPPINGS.node_to_movie_id[MOVIE_NODES[i]]]
        gset == UNION {SplitPipe(MOVIES_DF[i].genres) :
                          i \in {j \in DOMAIN MOVIES_DF : MOVIES_DF[j].genres # <<>>}}
    IN Ok([template     |-> "index.html",
           movies       |-> movie_options,
           genres       |-> <<All>> \o SortedStrs(gset),
           liked_movies |-> SessionGet("liked_movies", <<>>)])

\* mutant: session['results'] is assigned inside "if liked_movie_ids:", so a
\* POST with no liked id leaves the results of the POST before it
recommend_POST_KeepsOldResults(form) ==
    LET top_n        == IF form.top_n = <<>> THEN Ok(10) ELSE ParseInt(form.top_n[1])
        rating_limit == IF form.rating_limit = <<>> THEN Ok(0)
                        ELSE ParseFloat(form.rating_limit[1])
        prioritize_rating == form.prioritize_rating = <<"yes">>
        liked_movie_ids   == ParseLikedMovies(FormGet(form.liked_movies, <<>>))
    IN IF top_n.err # "none" \/ rating_limit.err # "none" \/ liked_movie_ids.err # "none"
       THEN [response |-> Raise("ValueError"), session |-> session]
       ELSE LET stored  == SessionStore(session,
                               [liked_movies      |-> liked_movie_ids.val,
                                top_n             |-> top_n.val,
                                genre             |-> FormGet(form.genre, All),
                                rating_limit      |-> rating_limit.val,
                                algorithm         |-> FormGet(form.algorithm, "jaccard"),
                                prioritize_rating |-> prioritize_rating])
                answer  == get_recommendations_for_liked_movies(liked_movie_ids.val,
                               top_n.val, FormGet(form.genre, All), rating_limit.val,
                               FormGet(form.algorithm, "jaccard"), prioritize_rating)
            IN IF liked_movie_ids.val = <<>>
               THEN [response |-> Ok([template |-> "recommendations.html",
                                      results  |-> <<>>,
                                      error    |-> <<>>]),
                     session  |-> IF "results" \in DOMAIN session THEN stored
                                  ELSE SessionStore(stored, [results |-> <<>>])]
               ELSE [response |-> Ok([template |-> "recommendations.html",
                                      results  |-> answer.val,
                                      error    |-> <<>>]),
                     session  |-> SessionStore(stored, [results |-> answer.val])]

\* recommend(), request.method == "POST": the response and the session it leaves
recommend_POST(form) ==
    LET top_n        == IF form.top_n = <<>> THEN Ok(10) ELSE ParseInt(form.top_n[1])
        genre        == FormGet(form.genre, All)
        rating_limit == IF form.rating_limit = <<>> THEN Ok(0)
                        ELSE ParseFloat(form.rating_limit[1])
        algorithm    == FormGet(form.algorithm, "jaccard")
        prioritize_rating == form.prioritize_rating = <<"yes">>
        liked_movie_ids   == ParseLikedMovies(FormGet(form.liked_movies, <<>>))
    IN IF top_n.err # "none" \/ rating_limit.err # "none" \/ liked_movie_ids.err # "none"
       THEN [response |-> Raise("ValueError"), session |-> session]
       ELSE LET stored  == SessionStore(session,
                               [liked_movies      |-> liked_movie_ids.val,
                                top_n             |-> top_n.val,
                                genre             |-> genre,
                                rating_limit      |-> rating_limit.val,
                                algorithm         |-> algorithm,
                                prioritize_rating |-> prioritize_rating])
                answer  == IF liked_movie_ids.val # <<>>
                           THEN get_recommendations_for_liked_movies(liked_movie_ids.val,
                                    top_n.val, genre, rating_limit.val, algorithm,
                                    prioritize_rating)
                           ELSE Ok(<<>>)
            IN IF answer.err # "none"
               THEN [response |-> Raise(answer.err), session |-> stored]
               ELSE [response |-> Ok([template |-> "recommendations.html",
                                      results  |-> answer.val,
                                      error    |-> <<>>]),
                     session  |-> SessionStore(stored, [results |-> answer.val])]

NoRecommendations == "No recommendations found. Please select movies first."

\* recommend(), request.method == "GET"
recommend_GET ==
    LET results == SessionGet("results", <<>>)
    IN IF results = <<>>
       THEN Ok([template |-> "recommendations.html", results |-> <<>>,
                error |-> <<NoRecommendations>>])
       ELSE Ok([template |-> "recommendations.html", results |-> results,
                error |-> <<>>])

NoRecommendationData == "No recommendation data found. Please generate recommendations first."

\* graph(): the error page, or the page of the figure that
\* create_bipartite_graph draws from the liked ids and the results of the
\* session: the liked movie nodes and the nodes of the first ten results
graph ==
    LET liked_movie_ids == SessionGet("liked_movies", <<>>)
        results         == SessionGet("results", <<>>)
        named           == [i \in DOMAIN liked_movie_ids |-> MovieNode(liked_movie_ids[i])]
    IN IF liked_movie_ids = <<>> \/ results = <<>>
       THEN Ok([template |-> "graph.html", error |-> <<NoRecommendationData>>,
                liked |-> <<>>, recommended |-> <<>>])
       ELSE Ok([template |-> "graph.html", error |-> <<>>,
                liked |-> SelectSeq(named, LAMBDA m : HasNode(G, m)),
                recommended |-> [i \in DOMAIN PySliceTo(results, 10) |-> results[i].movie_node]])

\* the forms of the model
LikedMoviesFields ==
    { <<>>, << <<>> >>, << <<"1">> >>, << <<"1", ",", "2">> >>,
      << <<" ", "3", " ", ",", ",", "1">> >>, << <<"2", ",", "x">> >> }

TopNFields == { <<>>, << <<"2">> >>, << <<"t", "e", "n">> >> }

GenreFields == { <<>>, << <<"a">> >> }

RatingLimitFields == { <<>>, << <<"4", ".", "5">> >>, << <<"4", ",", "5">> >> }

AlgorithmFields == { <<>>, <<"cn">> }

PrioritizeFields == { <<>>, <<"yes">> }

Forms ==
    [liked_movies : LikedMoviesFields, top_n : TopNFields, genre : GenreFields,
     rating_limit : RatingLimitFields, algorithm : AlgorithmFields,
     prioritize_rating : PrioritizeFields]

\* GET /
GetIndex ==
    /\ pc = "serve"
    /\ call = NoCall
    /\ call' = [op |-> "GET /"]
    /\ ret' = index
    /\ UNCHANGED <<pc, data, session, frame>>

\* POST /recommend
PostRecommend ==
    /\ pc = "serve"
    /\ call = NoCall
    /\ \E form \in Forms :
          /\ call' = [op |-> "POST /recommend", form |-> form]
          /\ ret' = recommend_POST(form).response
          /\ session' = recommend_POST(form).session
    /\ UNCHANGED <<pc, data, frame>>

\* GET /recommend
GetRecommend ==
    /\ pc = "serve"
    /\ call = NoCall
    /\ call' = [op |-> "GET /recommend"]
    /\ ret' = recommend_GET
    /\ UNCHANGED <<pc, data, session, frame>>

\* GET /graph
GetGraph ==
    /\ pc = "serve"
    /\ call = NoCall
    /\ call' = [op |-> "GET /graph"]
    /\ ret' = graph
    /\ UNCHANGED <<pc, data, session, frame>>

\* the web application of src/app.py serving one browser
SessionNext ==
    \/ Startup
    \/ Return
    \/ GetIndex
    \/ PostRecommend
    \/ GetRecommend
    \/ GetGraph

\* the tables of the scenario, user 1 having rated as in RatedBy1
ScenarioTables ==
    {UserRows(1, r1) \o UserRows(2, << <<1, 10>>, <<3, 8>> >>) \o UserRows(3, << <<2, 7>> >>) :
        r1 \in RatedBy1}

SessionInit == Init /\ RATINGS_DF \in ScenarioTables

SessionSpec == SessionInit /\ [][SessionNext]_vars

(***************************************************************************)
(* The random walk with restart that recommend_for_user calls as           *)
(* score.rwr_scores_for_user.  src/src/scoring.py holds no such function;  *)
(* the walk is the one the specification describes as random_walk_restart, *)
(* over exact fractions.                                                   *)
(***************************************************************************)
RECURSIVE GCD(_, _)
GCD(a, b) == IF b = 0 THEN a ELSE GCD(b, a % b)

Abs(n) == IF n < 0 THEN 0 - n ELSE n

\* a fraction in lowest terms
Reduced(n, d) == LET g == GCD(Abs(n), d) IN Frac(n \div g, d \div g)

\* the least common multiple of two positive denominators
LCM(a, b) == (a \div GCD(a, b)) * b

FracAdd(a, b) ==
    LET l == LCM(a.den, b.den)
    IN Reduced(a.num * (l \div a.den) + b.num * (l \div b.den), l)

FracMul(a, b) ==
    LET g1 == GCD(Abs(a.num), b.den)
        g2 == GCD(Abs(b.num), a.den)
    IN Reduced((a.num \div g1) * (b.num \div g2), (a.den \div g2) * (b.den \div g1))

FracAbsDiff(a, b) ==
    LET l == LCM(a.den, b.den)
    IN Reduced(Abs(a.num * (l \div a.den) - b.num * (l \div b.den)), l)

\* a < b, over the least common denominator
FracBelow(a, b) ==
    LET l == LCM(a.den, b.den)
    IN a.num * (l \div a.den) < b.num * (l \div b.den)

RECURSIVE FracSum(_, _)
FracSum(S, f) ==
    IF S = {} THEN Zero
    ELSE LET x == CHOOSE y \in S : TRUE IN FracAdd(f[x], FracSum(S \ {x}, f))

One == Frac(1, 1)

\* e_user: all the mass on the restart node
UnitVector(g, user_node) ==
    [n \in DOMAIN g.attr |-> IF n = user_node THEN One ELSE Zero]

\* the total weight of column j of the transition matrix
ColumnWeight(g, j) == SumOver(Neighbors(g, j), [k \in Neighbors(g, j) |-> g.weight[{k, j}]])

\* P[i][j] = edge_weight(i, j) / sum_k edge_weight(k, j); a column of total
\* weight zero is all zero
Transition(g, i, j) ==
    IF i \in Neighbors(g, j) /\ ColumnWeight(g, j) > 0
    THEN Reduced(g.weight[{i, j}], ColumnWeight(g, j))
    ELSE Zero

\* p <- alpha e_user + (1 - alpha) P p
RwrUpdate(g, user_node, alpha, p) ==
    [i \in DOMAIN g.attr |->
        FracAdd(IF i = user_node THEN alpha ELSE Zero,
                FracMul(FracAdd(One, Frac(0 - alpha.num, alpha.den)),
                        FracSum(Neighbors(g, i),
                                [j \in Neighbors(g, i) |-> FracMul(Transition(g, i, j), p[j])])))]

\* the L1 change between two iterates
L1Change(p, q) == FracSum(DOMAIN p, [n \in DOMAIN p |-> FracAbsDiff(p[n], q[n])])

(***************************************************************************)
(* src/src/recommend.py: recommend_for_user, step by step, as the script   *)
(* src/src/test.py calls it on the graph it has built.                     *)
(***************************************************************************)
\* rwr_kwargs is None: {"alpha": 0.15, "max_iter": 200, "tol": 1e-6}
DefaultRwrKwargs == [alpha |-> Frac(3, 20), max_iter |-> 200, tol |-> Frac(1, 1000000)]

\* the iteration caps of the model, within reach of exact fractions
MaxIters == 0..3

\* the rwr_kwargs of the model: a tolerance no change is below (0), one some
\* changes are below (1/4) and one every change is below (3)
RwrKwargs ==
    {[alpha |-> a, max_iter |-> n, tol |-> t] :
        a \in {Frac(1, 2), One}, n \in MaxIters, t \in {Zero, Frac(1, 4), Frac(3, 1)}}

\* sort_key(a) < sort_key(b) for the keys (-(jaccard or 0.0), -(rwr_prob or 0.0))
RfuKeyLess(a, b) ==
    LET pa == IF IsNone(a.rwr_prob) THEN Zero ELSE a.rwr_prob
        pb == IF IsNone(b.rwr_prob) THEN Zero ELSE b.rwr_prob
    IN \/ FracLess(b.jaccard, a.jaccard)
       \/ FracEq(a.jaccard, b.jaccard) /\ FracBelow(pb, pa)

\* sorted(results, key=sort_key): sorted is stable
RECURSIVE SortRfuResults(_)
SortRfuResults(s) ==
    IF s = <<>> THEN <<>>
    ELSE LET sorted == SortRfuResults(SubSeq(s, 1, Len(s) - 1))
             x      == s[Len(s)]
             after  == {i \in DOMAIN sorted : RfuKeyLess(x, sorted[i])}
             p      == IF after = {} THEN Len(sorted) + 1
                       ELSE CHOOSE i \in after : \A j \in after : i <= j
         IN SubSeq(sorted, 1, p - 1) \o <<x>> \o SubSeq(sorted, p, Len(sorted))

\* the dict the loop appends for candidate m
RfuRecord(user_node, m, rwr_probs) ==
    LET gamma2_u     == TwoHopUsers(G, user_node)
        gamma1_m     == {n \in NodesAtDistance(G, m, 1) : Bipartite(G, n) = "user"}
        intersection == gamma2_u \cap gamma1_m
        similar_user_ids == {MAPPINGS.node_to_user_id[u] :
                                u \in {v \in intersection : v \in DOMAIN MAPPINGS.node_to_user_id}}
        has_id       == m \in DOMAIN MAPPINGS.node_to_movie_id
    IN [movie_node  |-> m,
        movie_id    |-> IF has_id THEN <<MAPPINGS.node_to_movie_id[m]>> ELSE <<>>,
        jaccard     |-> jaccard_2hop_score(user_node, m, G, NoneArg, NoneArg).val,
        rwr_prob    |-> IF rwr_probs # <<>> /\ m \in DOMAIN rwr_probs[1]
                        THEN rwr_probs[1][m] ELSE NoneVal,
        common_2hop |-> Cardinality(intersection),
        avg_rating_similar |->
            IF has_id /\ similar_user_ids # {}
            THEN MeanRatingInTable(MAPPINGS.node_to_movie_id[m], similar_user_ids)
            ELSE NoneVal]

\* src/src/test.py, lines 9 to 12: the graph of the script
ScriptBuild ==
    /\ pc = "load"
    /\ LET ratings_filtered == downsample_users(RATINGS_DF, MinLikes, Threshold)
           built == build_bipartite_graph(ratings_filtered, MOVIES_DF, Threshold)
       IN /\ G' = built.G
          /\ MAPPINGS' = built.mappings
          /\ pc' = IF validate_graph(built.G).err # "none" THEN "aborted" ELSE "built"
    /\ UNCHANGED <<RATINGS_DF, MOVIES_DF, USER_NODES, MOVIE_NODES, MOVIE_LIKERS_CACHE,
                   MOVIE_GENRES_CACHE, RATINGS_LOOKUP, call, ret, session, frame>>

\* recommend_for_user, lines 6 to 45: the defaults, seen, the candidates and
\* the one call of the random walk
RfuCall ==
    /\ pc = "built"
    /\ frame.state = "idle"
    /\ \E uid \in UserIds, top_n \in TopNs, use_rwr \in BOOLEAN,
          rwr_kwargs \in {<<>>} \cup {<<kw>> : kw \in RwrKwargs} :
          LET user_node == UserNode(uid)
              kwargs    == IF rwr_kwargs = <<>> THEN DefaultRwrKwargs ELSE rwr_kwargs[1]
          IN /\ use_rwr <=> rwr_kwargs # <<>>
             /\ call' = [op |-> "recommend_for_user", user_node |-> user_node,
                         top_n |-> top_n, use_rwr |-> use_rwr, rwr_kwargs |-> kwargs]
             /\ IF ~HasNode(G, user_node)
                THEN /\ ret' = Raise("NetworkXError")
                     /\ frame' = [state |-> "raised", candidates |-> <<>>, results |-> <<>>,
                                  rwr_calls |-> 0, p |-> <<>>, updates |-> 0,
                                  converged |-> FALSE, rwr_probs |-> <<>>]
                ELSE LET seen == {nbr \in Neighbors(G, user_node) : Bipartite(G, nbr) = "movie"}
                     IN /\ ret' = Ok(<<>>)
                        /\ frame' = [state |-> IF use_rwr THEN "walk" ELSE "loop",
                                     candidates |-> SelectSeq(NodesOfPart(G, "movie"),
                                                              LAMBDA m : m \notin seen),
                                     results |-> <<>>,
                                     rwr_calls |-> IF use_rwr THEN 1 ELSE 0,
                                     p |-> UnitVector(G, user_node), updates |-> 0,
                                     converged |-> FALSE, rwr_probs |-> <<>>]
    /\ UNCHANGED <<pc, data, session>>

\* the walk goes on: the cap is not reached and the last change was not below tol
WalkGoesOn ==
    /\ frame.state = "walk"
    /\ frame.updates < call.rwr_kwargs.max_iter
    /\ ~frame.converged

\* the walk stops: max_iterations is reached or the change dropped below tol
WalkStops ==
    /\ frame.state = "walk"
    /\ frame.updates >= call.rwr_kwargs.max_iter \/ frame.converged

\* one state-vector update of the walk
RwrIterate ==
    /\ WalkGoesOn
    /\ LET q == RwrUpdate(G, call.user_node, call.rwr_kwargs.alpha, frame.p)
       IN frame' = [frame EXCEPT !.p = q, !.updates = @ + 1,
                                 !.converged = FracBelow(L1Change(frame.p, q),
                                                         call.rwr_kwargs.tol)]
    /\ UNCHANGED <<pc, data, session, call, ret>>

\* the walk returns its last iterate; recommend_for_user, lines 43 to 45
RwrReturn ==
    /\ WalkStops
    /\ frame' = [frame EXCEPT !.state = "loop", !.rwr_probs = <<frame.p>>]
    /\ UNCHANGED <<pc, data, session, call, ret>>

\* mutant: the walk is called again for every candidate
RfuCandidate_WalksPerCandidate ==
    /\ frame.state = "loop"
    /\ Len(frame.results) < Len(frame.candidates)
    /\ frame' = [frame EXCEPT
           !.results = Append(@, RfuRecord(call.user_node,
                                           frame.candidates[Len(frame.results) + 1],
                                           frame.rwr_probs)),
           !.state = IF call.use_rwr THEN "walk" ELSE "loop",
           !.rwr_calls = IF call.use_rwr THEN @ + 1 ELSE @,
           !.p = UnitVector(G, call.user_node),
           !.updates = 0,
           !.converged = FALSE]
    /\ UNCHANGED <<pc, data, session, call, ret>>

\* recommend_for_user, lines 62 to 117: one pass of the loop over the candidates
RfuCandidate ==
    /\ frame.state = "loop"
    /\ Len(frame.results) < Len(frame.candidates)
    /\ frame' = [frame EXCEPT
           !.results = Append(@, RfuRecord(call.user_node,
                                           frame.candidates[Len(frame.results) + 1],
                                           frame.rwr_probs))]
    /\ UNCHANGED <<pc, data, session, call, ret>>

\* recommend_for_user, lines 119 to 131: sort and return the first top_n
RfuReturn ==
    /\ frame.state = "loop"
    /\ Len(frame.results) = Len(frame.candidates)
    /\ ret' = Ok(PySliceTo(SortRfuResults(frame.results), call.top_n))
    /\ frame' = [frame EXCEPT !.state = "done"]
    /\ UNCHANGED <<pc, data, session, call>>

\* the caller has taken the result or the exception
RfuExit ==
    /\ frame.state \in {"done", "raised"}
    /\ frame' = NoFrame
    /\ call' = NoCall
    /\ ret' = Ok(<<>>)
    /\ UNCHANGED <<pc, data, session>>

ScriptNext ==
    \/ ScriptBuild
    \/ RfuCall
    \/ RwrIterate
    \/ RwrReturn
    \/ RfuCandidate
    \/ RfuReturn
    \/ RfuExit

ScriptInit == Init /\ RATINGS_DF \in ScenarioTables

ScriptSpec == ScriptInit /\ [][ScriptNext]_vars

Next ==
    \/ Startup
    \/ Return
    \/ RecommendForUser
    \/ RecommendForLiked
    \/ WebRecommendForLiked
    \/ ScorePair
    \/ Score
    \/ BatchScore

Spec == Init /\ [][Next]_vars

(***************************************************************************)
(* The sets the properties speak of, read off the graph.                   *)
(***************************************************************************)
IsUser(n) == HasNode(G, n) /\ G.attr[n].bipartite = "user"

IsItem(n) == HasNode(G, n) /\ G.attr[n].bipartite = "movie"

Adjacent(a, b) == {a, b} \in DOMAIN G.weight

\* U: the user nodes at distance exactly 2 from u
UsersAtDistance2(u) ==
    {v \in DOMAIN G.attr :
        /\ IsUser(v) /\ v # u /\ ~Adjacent(u, v)
        /\ \E w \in DOMAIN G.attr : Adjacent(u, w) /\ Adjacent(w, v)}

\* L: the user nodes adjacent to m
UsersAdjacentTo(m) == {v \in DOMAIN G.attr : IsUser(v) /\ Adjacent(v, m)}

\* R: the union of the likers of the liked items
LikersOfLiked(liked_movie_ids) ==
    UNION {UsersAdjacentTo(MovieNode(mid)) :
              mid \in {x \in Range(liked_movie_ids) : IsItem(MovieNode(x))}}

Returned == ret.val

ItemsOf(records) == {records[i].movie_node : i \in DOMAIN records}

UserCallDone == pc = "serve" /\ call.op = "user" /\ ret.err = "none"

LikedCallDone == pc = "serve" /\ call.op = "liked" /\ ret.err = "none"

WebLikedCallDone == pc = "serve" /\ call.op = "web_liked" /\ ret.err = "none"

ScoreCallDone == pc = "serve" /\ call.op = "score"

\* the call of the state repeated with another floor / another prioritize_rating
SameCallWithLimit(rating_limit) ==
    IF call.op = "liked"
    THEN get_recommendations_for_liked_movies(call.liked_movie_ids, call.top_n,
             call.genre_filter, rating_limit, call.algorithm, call.prioritize_rating).val
    ELSE web_get_recommendations_for_liked_movies(call.liked_movie_ids, call.top_n,
             call.genre_filter, rating_limit, call.algorithm, call.prioritize_rating).val

SameCallWithPrioritize(prioritize_rating) ==
    get_recommendations_for_liked_movies(call.liked_movie_ids, call.top_n,
        call.genre_filter, call.rating_limit, call.algorithm, prioritize_rating).val

(***************************************************************************)
(* C1: no record returned by get_recommendations_for_user_node is an item  *)
(* adjacent to the querying user node, and no record returned by           *)
(* get_recommendations_for_liked_movies (of src/app.py and of              *)
(* src/web/app.py) is an item whose id is in the liked-id list.            *)
(***************************************************************************)
C1_NoSeenOrLikedItem ==
    /\ UserCallDone =>
           \A i \in DOMAIN Returned : ~Adjacent(call.user_node, Returned[i].movie_node)
    /\ (LikedCallDone \/ WebLikedCallDone) =>
           \A i \in DOMAIN Returned :
               /\ Returned[i].movie_id \notin Range(call.liked_movie_ids)
               /\ NodeId(Returned[i].movie_node) \notin Range(call.liked_movie_ids)

\* a call with two liked items that have nodes and likers returns a record
C1_Witness ==
    /\ LikedCallDone
    /\ Len(call.liked_movie_ids) = 2
    /\ \A i \in DOMAIN call.liked_movie_ids :
           UsersAdjacentTo(MovieNode(call.liked_movie_ids[i])) # {}
    /\ Returned # <<>>

(***************************************************************************)
(* C2: for every top_n <= 0 both entry points return an empty list.        *)
(***************************************************************************)
C2_NonPositiveTopNEmpty ==
    (UserCallDone \/ LikedCallDone) /\ call.top_n <= 0 => Returned = <<>>

(***************************************************************************)
(* C3 as claimed: with everything else fixed and f1 < f2, the items        *)
(* returned with rating_limit = f2 are among the items returned with       *)
(* rating_limit = f1.                                                      *)
(***************************************************************************)
C3_RaisingFloorShrinks ==
    (LikedCallDone \/ WebLikedCallDone) =>
        \A f2 \in RatingLimits :
            call.rating_limit < f2 => ItemsOf(SameCallWithLimit(f2)) \subseteq ItemsOf(Returned)

(***************************************************************************)
(* C3 amended: the same, for the calls whose result with the floor f1 is   *)
(* not cut by top_n (it holds fewer than top_n records).                   *)
(***************************************************************************)
C3_RaisingFloorShrinksUncut ==
    (LikedCallDone \/ WebLikedCallDone) /\ Len(Returned) < call.top_n =>
        \A f2 \in RatingLimits :
            call.rating_limit < f2 => ItemsOf(SameCallWithLimit(f2)) \subseteq ItemsOf(Returned)

\* an uncut result loses an item when the floor is raised
C3_Witness ==
    /\ LikedCallDone
    /\ Len(Returned) < call.top_n
    /\ \E f2 \in RatingLimits :
           /\ call.rating_limit < f2
           /\ SameCallWithLimit(f2) # <<>>
           /\ ItemsOf(SameCallWithLimit(f2)) # ItemsOf(Returned)

(***************************************************************************)
(* C4: two candidates that are in the result without and in the result     *)
(* with prioritize_rating, and that have equal average supporting ratings, *)
(* are in the same relative order in both results.                         *)
(***************************************************************************)
SameAverage(a, b) ==
    \/ IsNone(a.avg_rating) /\ IsNone(b.avg_rating)
    \/ ~IsNone(a.avg_rating) /\ ~IsNone(b.avg_rating) /\ FracEq(a.avg_rating, b.avg_rating)

C4_PrioritizeKeepsOrderOfEqualAverages ==
    LikedCallDone /\ call.prioritize_rating =>
        LET plain == SameCallWithPrioritize(FALSE)
        IN \A i, j \in DOMAIN Returned : \A k, l \in DOMAIN plain :
               /\ i < j
               /\ SameAverage(Returned[i], Returned[j])
               /\ plain[k].movie_node = Returned[i].movie_node
               /\ plain[l].movie_node = Returned[j].movie_node
               => k < l

\* two returned candidates with the same average and different raw scores,
\* both also returned without prioritize_rating
C4_Witness ==
    /\ LikedCallDone /\ call.prioritize_rating
    /\ LET plain == SameCallWithPrioritize(FALSE)
       IN \E i, j \in DOMAIN Returned : \E k, l \in DOMAIN plain :
              /\ i < j
              /\ ~IsNone(Returned[i].avg_rating)
              /\ SameAverage(Returned[i], Returned[j])
              /\ plain[k].movie_node = Returned[i].movie_node
              /\ plain[l].movie_node = Returned[j].movie_node
              /\ ~FracEq(plain[k].score, plain[l].score)

(***************************************************************************)
(* C5: for every user node u and item node m of the graph,                 *)
(* jaccard_2hop_score(u, m, G) returns a value v with 0 <= v <= 1, and     *)
(* returns 0 when the union of the 2-hop user set and the liker set is     *)
(* empty.                                                                  *)
(***************************************************************************)
C5_JaccardInUnitInterval ==
    ScoreCallDone /\ IsUser(call.user_node) /\ IsItem(call.movie_node) =>
        /\ ret.jaccard.err = "none"
        /\ ret.jaccard.val.den > 0
        /\ 0 <= ret.jaccard.val.num
        /\ ret.jaccard.val.num <= ret.jaccard.val.den
        /\ UsersAtDistance2(call.user_node) \cup UsersAdjacentTo(call.movie_node) = {}
               => ret.jaccard.val.num = 0

\* an isolated item node scored for a user without 2-hop users
C5_Witness ==
    /\ ScoreCallDone /\ IsUser(call.user_node) /\ IsItem(call.movie_node)
    /\ UsersAtDistance2(call.user_node) \cup UsersAdjacentTo(call.movie_node) = {}
    /\ ret.jaccard = Ok(Zero)

(***************************************************************************)
(* C6: when the 2-hop user set U and the liker set L have a non-empty      *)
(* union, common_neighbors_count = jaccard_2hop_score * (|U| + |L| -       *)
(* common_neighbors_count).                                                *)
(***************************************************************************)
C6_CountIsJaccardTimesUnion ==
    LET U == UsersAtDistance2(call.user_node)
        L == UsersAdjacentTo(call.movie_node)
    IN ScoreCallDone /\ IsUser(call.user_node) /\ IsItem(call.movie_node) /\ U \cup L # {} =>
           /\ ret.jaccard.err = "none" /\ ret.cn.err = "none"
           /\ ret.jaccard.val.den > 0
           /\ ret.cn.val * ret.jaccard.val.den
                  = ret.jaccard.val.num * (Cardinality(U) + Cardinality(L) - ret.cn.val)

\* a pair with a common neighbour and a union larger than the intersection
C6_Witness ==
    /\ ScoreCallDone /\ IsUser(call.user_node) /\ IsItem(call.movie_node)
    /\ ret.cn.err = "none" /\ ret.cn.val >= 1
    /\ Cardinality(UsersAtDistance2(call.user_node) \cup UsersAdjacentTo(call.movie_node))
           > ret.cn.val

(***************************************************************************)
(* C7: every record of the by-user recommendation for candidate m has, with*)
(* U the user nodes at distance exactly 2 from u and L the user nodes      *)
(* adjacent to m, jaccard |U \cap L| / |U \cup L| (0 if the union is       *)
(* empty), common-neighbour count |U \cap L| and as average rating the     *)
(* mean of the ratings the members of U \cap L gave to m (None when        *)
(* U \cap L is empty); on the scenario graph the call for u1 returns the   *)
(* single record m3 with jaccard 0.5, count 1 and average 4.0.             *)
(***************************************************************************)
\* the ratings of the interaction table that the users of S gave to item m
RatingRowsOf(S, m) ==
    {i \in DOMAIN RATINGS_DF :
        /\ UserNode(RATINGS_DF[i].userId) \in S
        /\ MovieNode(RATINGS_DF[i].movieId) = m}

\* the scenario: its table and catalog are loaded and the graph has its five edges
ScenarioLoaded ==
    /\ RATINGS_DF = ScenarioTable /\ MOVIES_DF = CatalogA
    /\ DOMAIN G.weight = { {UserNode(1), MovieNode(1)}, {UserNode(1), MovieNode(2)},
                           {UserNode(2), MovieNode(1)}, {UserNode(2), MovieNode(3)},
                           {UserNode(3), MovieNode(2)} }

C7_UserRecordValues ==
    UserCallDone =>
        /\ \A i \in DOMAIN Returned :
               LET r == Returned[i]
                   U == UsersAtDistance2(call.user_node)
                   L == UsersAdjacentTo(r.movie_node)
                   rows == RatingRowsOf(U \cap L, r.movie_node)
               IN /\ r.jaccard.den > 0
                  /\ IF U \cup L = {} THEN r.jaccard.num = 0
                     ELSE r.jaccard.num * Cardinality(U \cup L)
                              = Cardinality(U \cap L) * r.jaccard.den
                  /\ r.common_2hop = Cardinality(U \cap L)
                  /\ IF U \cap L = {} THEN IsNone(r.avg_rating)
                     ELSE /\ rows # {}
                          /\ ~IsNone(r.avg_rating)
                          /\ r.avg_rating.num * Cardinality(rows)
                                 = SumOver(rows, [k \in rows |-> RATINGS_DF[k].rating])
                                       * r.avg_rating.den
        /\ ScenarioLoaded /\ call.user_node = UserNode(1) /\ call.top_n >= 1
              /\ ~GenreFilterActive(call.genre_filter)
              => /\ Len(Returned) = 1
                 /\ Returned[1].movie_node = MovieNode(3)
                 /\ Returned[1].jaccard.num * 2 = Returned[1].jaccard.den
                 /\ Returned[1].common_2hop = 1
                 /\ Returned[1].avg_rating.num = 8 * Returned[1].avg_rating.den

\* the scenario's call for u1
C7_Witness ==
    /\ UserCallDone /\ ScenarioLoaded
    /\ call.user_node = UserNode(1) /\ call.top_n = 1 /\ call.genre_filter = <<>>
    /\ Len(Returned) = 1

(***************************************************************************)
(* C8: every record of get_recommendations_for_liked_movies for candidate  *)
(* m has, with R the union of the likers of the liked items and L the      *)
(* likers of m, the raw score |R \cap L| under "cn" and |R \cap L| /       *)
(* |R \cup L| under "jaccard".                                             *)
(***************************************************************************)
C8_LikedRawScore ==
    LikedCallDone =>
        \A i \in DOMAIN Returned :
            LET r == Returned[i]
                R == LikersOfLiked(call.liked_movie_ids)
                L == UsersAdjacentTo(r.movie_node)
                raw == IF call.prioritize_rating /\ ~IsNone(r.avg_rating)
                       THEN Frac(r.score.num * RatingScale * r.avg_rating.den,
                                 r.score.den * r.avg_rating.num)
                       ELSE r.score
            IN /\ raw.den > 0
               /\ call.algorithm = "cn" => raw.num = Cardinality(R \cap L) * raw.den
               /\ call.algorithm = "jaccard" =>
                      /\ raw.num * Cardinality(R \cup L) = Cardinality(R \cap L) * raw.den
                      /\ FracEq(r.jaccard, raw)

\* two liked items, and a Jaccard score strictly between 0 and 1
C8_Witness ==
    /\ LikedCallDone /\ call.algorithm = "jaccard" /\ ~call.prioritize_rating
    /\ Len(call.liked_movie_ids) = 2
    /\ \A i \in DOMAIN call.liked_movie_ids :
           UsersAdjacentTo(MovieNode(call.liked_movie_ids[i])) # {}
    /\ \E i \in DOMAIN Returned :
           0 < Returned[i].score.num /\ Returned[i].score.num < Returned[i].score.den

(***************************************************************************)
(* Ranked lists, for C9 and C10.                                           *)
(***************************************************************************)
\* the first n elements of s; none when n <= 0
FirstN(s, n) == SubSeq(s, 1, Min(Max(n, 0), Len(s)))

\* the by-user candidates ranked by Jaccard descending, then common-neighbour
\* count descending, then position in the item-node order
UserRanking ==
    LET cands == UserCandidates(call.user_node, call.genre_filter)
        U     == UsersAtDistance2(call.user_node)
        Inter(m) == Cardinality(U \cap UsersAdjacentTo(m))
        Union(m) == Cardinality(U \cup UsersAdjacentTo(m))
        \* Jaccard of a above Jaccard of b, by cross-multiplication (0 for an empty union)
        JaccardAbove(a, b) ==
            IF Union(a) = 0 THEN FALSE
            ELSE IF Union(b) = 0 THEN Inter(a) > 0
            ELSE Inter(a) * Union(b) > Inter(b) * Union(a)
        Better(a, b) ==
            \/ JaccardAbove(a, b)
            \/ ~JaccardAbove(b, a) /\ Inter(a) > Inter(b)
        Precedes(j, i) ==
            \/ Better(cands[j], cands[i])
            \/ ~Better(cands[i], cands[j]) /\ j < i
    IN [k \in DOMAIN cands |->
           cands[CHOOSE i \in DOMAIN cands :
                     Cardinality({j \in DOMAIN cands : j # i /\ Precedes(j, i)}) = k - 1]]

\* the surviving candidates of the by-liked call ranked by final score
\* descending, then position in the item-node order
LikedRanking ==
    LET survivors == LikedResults(call.liked_movie_ids, call.genre_filter,
                                  call.rating_limit, call.algorithm, call.prioritize_rating)
        Precedes(j, i) ==
            \/ FracLess(survivors[i].score, survivors[j].score)
            \/ FracEq(survivors[i].score, survivors[j].score) /\ j < i
    IN [k \in DOMAIN survivors |->
           survivors[CHOOSE i \in DOMAIN survivors :
                         Cardinality({j \in DOMAIN survivors : j # i /\ Precedes(j, i)}) = k - 1]]

NodeSeq(records) == [i \in DOMAIN records |-> records[i].movie_node]

(***************************************************************************)
(* C9: the list returned by the by-user recommendation is exactly the      *)
(* first top_n elements of the candidate list sorted by Jaccard            *)
(* descending, then common-neighbour count descending, candidates equal in *)
(* both keeping their item-node order.                                     *)
(***************************************************************************)
C9_UserResultIsRankedPrefix ==
    UserCallDone => NodeSeq(Returned) = FirstN(UserRanking, call.top_n)

\* C9 restricted to top_n >= 0
C9_ForNonNegativeTopN ==
    UserCallDone /\ call.top_n >= 0 => NodeSeq(Returned) = FirstN(UserRanking, call.top_n)

(***************************************************************************)
(* C10: the list returned by get_recommendations_for_liked_movies is       *)
(* exactly the first top_n surviving candidates sorted by final score      *)
(* descending, candidates of equal final score keeping their item-node     *)
(* order; for liked [m1] with "cn" on the scenario graph m2 and m3 both    *)
(* score 1 and m2 precedes m3.                                             *)
(***************************************************************************)
ScenarioLikedCall ==
    /\ ScenarioLoaded
    /\ call.liked_movie_ids = <<1>> /\ call.algorithm = "cn" /\ call.top_n >= 2
    /\ ~GenreFilterActive(call.genre_filter)
    /\ call.rating_limit = 0 /\ ~call.prioritize_rating

C10_LikedResultIsRankedPrefix ==
    LikedCallDone =>
        /\ Returned = FirstN(LikedRanking, call.top_n)
        /\ ScenarioLikedCall =>
               /\ NodeSeq(Returned) = <<MovieNode(2), MovieNode(3)>>
               /\ Returned[1].score = Frac(1, 1) /\ Returned[2].score = Frac(1, 1)

\* C10 restricted to top_n >= 0
C10_ForNonNegativeTopN ==
    LikedCallDone /\ call.top_n >= 0 =>
        /\ Returned = FirstN(LikedRanking, call.top_n)
        /\ ScenarioLikedCall =>
               /\ NodeSeq(Returned) = <<MovieNode(2), MovieNode(3)>>
               /\ Returned[1].score = Frac(1, 1) /\ Returned[2].score = Frac(1, 1)

(***************************************************************************)
(* C11: score(user_node, item_node, G, method), called on nodes of the     *)
(* graph, returns a real score when method is one of "jaccard", "cn",      *)
(* "rwr", and for every other method name it fails with ValueError and     *)
(* computes no score.                                                      *)
(***************************************************************************)
ScoreMethodCallDone == pc = "serve" /\ call.op = "score_method"

C11_ScoreDispatch ==
    (ScoreMethodCallDone /\ HasNode(G, call.user_node) /\ HasNode(G, call.movie_node)) =>
        IF call.method \in {Jaccard, Cn, Rwr}
        THEN ret.err = "none" /\ ~IsNone(ret.val)
        ELSE ret.err = "ValueError"

(***************************************************************************)
(* C12: jaccard_2hop_score, common_neighbors_count, score and batch_score, *)
(* asked to score a user node or an item node that is not in the graph,    *)
(* fail with the not-found error (KeyError) and report no number for it.   *)
(***************************************************************************)
BatchScoreCallDone == pc = "serve" /\ call.op = "batch_score"

C12_AbsentNodeNotFound ==
    /\ (ScoreCallDone /\ (~HasNode(G, call.user_node) \/ ~HasNode(G, call.movie_node))) =>
           ret.jaccard.err = "KeyError" /\ ret.cn.err = "KeyError"
    /\ (ScoreMethodCallDone /\ Lower(call.method) \in {Jaccard, Cn, CommonNeighbors}
           /\ (~HasNode(G, call.user_node) \/ ~HasNode(G, call.movie_node))) =>
           ret.err = "KeyError"
    /\ (BatchScoreCallDone
           /\ (~HasNode(G, call.user_node)
                  \/ \E m \in Range(call.candidate_movies) : ~HasNode(G, m))) =>
           ret.err = "KeyError"

(***************************************************************************)
(* C13: get_recommendations_for_liked_movies called with an algorithm name *)
(* that is neither "jaccard" nor "cn" fails with the invalid-argument      *)
(* error (ValueError) and returns no recommendation records.               *)
(***************************************************************************)
C13_UnknownAlgorithmFails ==
    (pc = "serve" /\ call.op \in {"liked", "web_liked"}
        /\ call.algorithm \notin {"jaccard", "cn"}) =>
        ret.err = "ValueError" /\ ret.val = <<>>

(***************************************************************************)
(* C14: whatever item ids the interaction table holds, in the catalog or   *)
(* not, every edge of the graph build_bipartite_graph returns has one      *)
(* endpoint whose partition attribute is user and one whose partition      *)
(* attribute is movie.                                                     *)
(***************************************************************************)
JoinsUserAndMovie(g, e) ==
    \E u, v \in e : Bipartite(g, u) = "user" /\ Bipartite(g, v) = "movie"

C14_EveryEdgeJoinsUserAndMovie ==
    pc = "serve" => \A e \in DOMAIN G.weight : JoinsUserAndMovie(G, e)

(***************************************************************************)
(* C15: after build_bipartite_graph every node of the graph is a key of    *)
(* exactly one of node_to_user_id and node_to_movie_id; user_id_to_node    *)
(* and node_to_user_id are inverse bijections of each other, and so are    *)
(* movie_id_to_node and node_to_movie_id.                                  *)
(***************************************************************************)
Inverses(id_to_node, node_to_id) ==
    /\ \A id \in DOMAIN id_to_node :
           id_to_node[id] \in DOMAIN node_to_id /\ node_to_id[id_to_node[id]] = id
    /\ \A n \in DOMAIN node_to_id :
           node_to_id[n] \in DOMAIN id_to_node /\ id_to_node[node_to_id[n]] = n

MappingsInverse ==
    /\ Inverses(MAPPINGS.user_id_to_node, MAPPINGS.node_to_user_id)
    /\ Inverses(MAPPINGS.movie_id_to_node, MAPPINGS.node_to_movie_id)

C15_MappingsAreBijections ==
    pc = "serve" =>
        /\ \A n \in Range(G.nodes) :
               (n \in DOMAIN MAPPINGS.node_to_user_id) # (n \in DOMAIN MAPPINGS.node_to_movie_id)
        /\ MappingsInverse

\* the same for the graphs all of whose nodes carry a partition attribute
C15_ForAttributedNodes ==
    (pc = "serve" /\ \A n \in Range(G.nodes) : Bipartite(G, n) # "none") =>
        /\ \A n \in Range(G.nodes) :
               (n \in DOMAIN MAPPINGS.node_to_user_id) # (n \in DOMAIN MAPPINGS.node_to_movie_id)
        /\ MappingsInverse

(***************************************************************************)
(* C16: get_recommendations_for_liked_movies returns an empty list         *)
(* whenever the union of the liker sets of the liked-item nodes is empty   *)
(* (no liked ids, only unknown ids, only items nobody liked), whatever the *)
(* other parameters are.                                                   *)
(***************************************************************************)
C16_NoReferenceUsersNoRecords ==
    ((LikedCallDone \/ WebLikedCallDone) /\ LikersOfLiked(call.liked_movie_ids) = {}) =>
        Returned = <<>>

\* the same for the function of src/app.py alone
C16_InCachedApp ==
    (LikedCallDone /\ LikersOfLiked(call.liked_movie_ids) = {}) => Returned = <<>>

(***************************************************************************)
(* C17: for both recommendation entry points, when every candidate's score *)
(* is zero (by user: every unseen item has Jaccard 0; by liked items:      *)
(* no item outside the liked ones shares a liker with them), the call      *)
(* returns an empty list.                                                  *)
(***************************************************************************)
ItemNodes == {n \in DOMAIN G.attr : IsItem(n)}

EveryUnseenItemScoresZero(u) ==
    \A m \in ItemNodes : ~Adjacent(u, m) => UsersAtDistance2(u) \cap UsersAdjacentTo(m) = {}

EveryOtherItemScoresZero(liked_movie_ids) ==
    \A m \in ItemNodes \ {MovieNode(x) : x \in Range(liked_movie_ids)} :
        LikersOfLiked(liked_movie_ids) \cap UsersAdjacentTo(m) = {}

C17_AllScoresZeroNoRecords ==
    /\ (UserCallDone /\ EveryUnseenItemScoresZero(call.user_node)) => Returned = <<>>
    /\ ((LikedCallDone \/ WebLikedCallDone) /\ EveryOtherItemScoresZero(call.liked_movie_ids)) =>
           Returned = <<>>

\* the same for get_recommendations_for_liked_movies of src/app.py alone
C17_ForLikedInCachedApp ==
    (LikedCallDone /\ EveryOtherItemScoresZero(call.liked_movie_ids)) => Returned = <<>>

(***************************************************************************)
(* C18: no scoring call and no recommendation call, whether it returns or  *)
(* raises, changes the graph, the four mappings, the liker cache, the      *)
(* genre cache or the rating lookup; so the call just made, made again,    *)
(* returns what it returned.                                               *)
(***************************************************************************)
\* what the call of the state returns when it is made in this state
Repeated ==
    CASE call.op = "user" ->
             get_recommendations_for_user_node(call.user_node, call.top_n, call.genre_filter)
      [] call.op = "liked" ->
             get_recommendations_for_liked_movies(call.liked_movie_ids, call.top_n,
                 call.genre_filter, call.rating_limit, call.algorithm, call.prioritize_rating)
      [] call.op = "web_liked" ->
             web_get_recommendations_for_liked_movies(call.liked_movie_ids, call.top_n,
                 call.genre_filter, call.rating_limit, call.algorithm, call.prioritize_rating)
      [] call.op = "score" ->
             [jaccard |-> jaccard_2hop_score(call.user_node, call.movie_node, G,
                                             NoneArg, NoneArg),
              cn      |-> common_neighbors_count(call.user_node, call.movie_node, G,
                                                 NoneArg, NoneArg)]
      [] call.op = "score_method" ->
             scoring_score(call.user_node, call.movie_node, G, call.method)
      [] call.op = "batch_score" ->
             batch_score(call.user_node, call.candidate_movies, G, call.method)
      [] call.op = "none" -> Ok(<<>>)

C18_QueriesLeaveStateAlone ==
    /\ [][pc = "serve" => data' = data]_vars
    /\ [](pc = "serve" => ret = Repeated)

C18_Witness ==
    /\ pc = "serve" /\ call.op = "batch_score" /\ ret.err = "KeyError"
    /\ G.nodes # <<>>
    /\ MOVIE_LIKERS_CACHE = precompute_movie_likers(G)

(***************************************************************************)
(* C19: validate_graph raises the structural-integrity error               *)
(* (AssertionError) for every graph with an edge that does not connect one *)
(* user-partition node to one item-partition node, and returns normally    *)
(* only for graphs all of whose edges connect one user-partition node and  *)
(* one item-partition node. Stated of the graph the startup validated.     *)
(***************************************************************************)
C19_ValidatorRaisesOnEveryBadEdge ==
    pc = "serve" =>
        (validate_graph(G).err = "AssertionError"
            <=> \E e \in DOMAIN G.weight : ~JoinsUserAndMovie(G, e))

(***************************************************************************)
(* C20: after build_bipartite_graph(ratings, movies, threshold) the nodes  *)
(* u_a and m_b are joined by an edge if and only if the table holds a      *)
(* record (a, b, r) with r >= threshold, and the weight of the edge is the *)
(* rating of that record, of the last one in table order when there are    *)
(* several. Stated of the graph the startup built from the filtered table, *)
(* and of the graph built from the whole table.                            *)
(***************************************************************************)
PositiveRows(table, a, b, threshold) ==
    SelectSeq(table, LAMBDA r : r.userId = a /\ r.movieId = b /\ r.rating >= threshold)

EdgesAreThePositiveRecords(g, table, threshold) ==
    /\ \A e \in DOMAIN g.weight :
           \E a \in UserIds, b \in LikedIds : e = {UserNode(a), MovieNode(b)}
    /\ \A a \in UserIds, b \in LikedIds :
           LET rows == PositiveRows(table, a, b, threshold)
               e    == {UserNode(a), MovieNode(b)}
           IN /\ e \in DOMAIN g.weight <=> rows # <<>>
              /\ rows # <<>> => g.weight[e] = rows[Len(rows)].rating

C20_EdgeIffPositiveRecord ==
    /\ pc = "load" =>
           EdgesAreThePositiveRecords(
               build_bipartite_graph(RATINGS_DF, MOVIES_DF, Threshold).G, RATINGS_DF, Threshold)
    /\ pc = "serve" =>
           EdgesAreThePositiveRecords(
               G, downsample_users(RATINGS_DF, MinLikes, Threshold), Threshold)

\* a built graph with an edge of a pair rated twice at or above the threshold
\* with different ratings, and a pair rated only below it
C20_Witness ==
    /\ pc = "serve"
    /\ \E a \in UserIds, b \in LikedIds :
           LET rows == PositiveRows(RATINGS_DF, a, b, Threshold)
           IN /\ Len(rows) >= 2 /\ rows[1].rating # rows[Len(rows)].rating
              /\ {UserNode(a), MovieNode(b)} \in DOMAIN G.weight
    /\ \E i \in DOMAIN RATINGS_DF :
           /\ RATINGS_DF[i].rating < Threshold
           /\ PositiveRows(RATINGS_DF, RATINGS_DF[i].userId, RATINGS_DF[i].movieId,
                           Threshold) = <<>>
           /\ {UserNode(RATINGS_DF[i].userId), MovieNode(RATINGS_DF[i].movieId)}
                  \notin DOMAIN G.weight

(***************************************************************************)
(* C21: the rating lookup is built from the unfiltered table: for every    *)
(* user id a of the unfiltered table (users the activity filter keeps out  *)
(* of the graph included) and every item id b that a rated,                *)
(* RATINGS_LOOKUP[a][b] is the rating of the last record (a, b, r) in      *)
(* table order, and RATINGS_LOOKUP has no other entries.                   *)
(***************************************************************************)
RecordsOf(a, b) == SelectSeq(RATINGS_DF, LAMBDA r : r.userId = a /\ r.movieId = b)

RatedItems(a) ==
    {RATINGS_DF[i].movieId : i \in {j \in DOMAIN RATINGS_DF : RATINGS_DF[j].userId = a}}

SharesALiker(record, liked_movie_ids) ==
    /\ UsersAdjacentTo(record.movie_node) \cap LikersOfLiked(liked_movie_ids) # {}
    /\ record.common_2hop >= 1

C22_EveryRecordSharesALiker ==
    (LikedCallDone \/ WebLikedCallDone) =>
        \A i \in DOMAIN Returned : SharesALiker(Returned[i], call.liked_movie_ids)

\* the same for the function of src/app.py alone
C22_InCachedApp ==
    LikedCallDone =>
        \A i \in DOMAIN Returned : SharesALiker(Returned[i], call.liked_movie_ids)

(***************************************************************************)
(* C23: with rating_limit > 0 every record get_recommendations_for_liked_  *)
(* movies returns has an average supporting rating that is not None and is *)
(* at least rating_limit; with rating_limit 0 the rating filter drops no   *)
(* candidate: a result that top_n did not cut holds every item outside the *)
(* liked ones that shares a liker with them (no genre filter given).       *)
(***************************************************************************)
AverageAtLeast(record, rating_limit) ==
    /\ ~IsNone(record.avg_rating)
    /\ record.avg_rating.num >= rating_limit * record.avg_rating.den

SharingItems(liked_movie_ids) ==
    {m \in ItemNodes \ {MovieNode(x) : x \in Range(liked_movie_ids)} :
        UsersAdjacentTo(m) \cap LikersOfLiked(liked_movie_ids) # {}}

RatingFilterRespected ==
    /\ call.rating_limit > 0 =>
           \A i \in DOMAIN Returned : AverageAtLeast(Returned[i], call.rating_limit)
    /\ (call.rating_limit = 0 /\ ~GenreFilterActive(call.genre_filter)
           /\ Len(Returned) < call.top_n) =>
           SharingItems(call.liked_movie_ids) \subseteq ItemsOf(Returned)

C23_RatingFloorFilters == (LikedCallDone \/ WebLikedCallDone) => RatingFilterRespected

\* the same for the function of src/app.py alone
C23_InCachedApp == LikedCallDone => RatingFilterRespected

(***************************************************************************)
(* C24: for every candidate of get_recommendations_for_liked_movies of     *)
(* src/app.py, whatever its integer item id, the reported average rating   *)
(* is the arithmetic mean of RATINGS_LOOKUP[a][item id] over the           *)
(* supporters a (the members of the intersection) that have such an entry, *)
(* and it is None exactly when no supporter has one.                       *)
(***************************************************************************)
SupportersWithEntry(record, liked_movie_ids) ==
    {a \in {NodeId(u) : u \in UsersAdjacentTo(record.movie_node)
                               \cap LikersOfLiked(liked_movie_ids)} :
        /\ a \in DOMAIN RATINGS_LOOKUP
        /\ NodeId(record.movie_node) \in DOMAIN RATINGS_LOOKUP[a]}

AverageIsLookupMean(record, liked_movie_ids) ==
    LET rated == SupportersWithEntry(record, liked_movie_ids)
        total == SumOver(rated, [a \in rated |-> RATINGS_LOOKUP[a][NodeId(record.movie_node)]])
    IN /\ IsNone(record.avg_rating) <=> rated = {}
       /\ rated # {} =>
              record.avg_rating.num * Cardinality(rated) = total * record.avg_rating.den

C24_AverageIsLookupMean ==
    LikedCallDone =>
        \A i \in DOMAIN Returned : AverageIsLookupMean(Returned[i], call.liked_movie_ids)

\* the same for the candidates whose item id is not 0
C24_ForNonZeroIds ==
    LikedCallDone =>
        \A i \in DOMAIN Returned :
            NodeId(Returned[i].movie_node) # 0 =>
                AverageIsLookupMean(Returned[i], call.liked_movie_ids)

(***************************************************************************)
(* C25: in both recommendation entry points of src/app.py, when a genre    *)
(* filter other than "All" is given, a candidate is kept if and only if    *)
(* the tag is an element of the candidate's genre set (the tags its genre  *)
(* string splits into); when the filter is "All" or absent no candidate is *)
(* removed by genre. Stated of the results top_n did not cut (and, for the *)
(* liked items, with rating_limit 0).                                      *)
(***************************************************************************)
GenreSet(m) == IF G.attr[m].genres = <<>> THEN {} ELSE SplitPipe(G.attr[m].genres)

PassesGenre(m, genre_filter) ==
    GenreFilterActive(genre_filter) => genre_filter \in GenreSet(m)

UnseenItems(u) == {m \in ItemNodes : ~Adjacent(u, m)}

GenreFilterForUser ==
    (UserCallDone /\ Len(Returned) < call.top_n) =>
        ItemsOf(Returned) = {m \in UnseenItems(call.user_node) : PassesGenre(m, call.genre_filter)}

GenreFilterForLiked ==
    (LikedCallDone /\ call.rating_limit = 0 /\ Len(Returned) < call.top_n) =>
        ItemsOf(Returned) =
            {m \in SharingItems(call.liked_movie_ids) : PassesGenre(m, call.genre_filter)}

C25_GenreFilterIsSetMembership == GenreFilterForUser /\ GenreFilterForLiked

\* the same for get_recommendations_for_liked_movies alone
C25_ForLikedItems == GenreFilterForLiked

(***************************************************************************)
(* C26: for every liked-id list X, get_recommendations_for_liked_movies    *)
(* raises no error and returns the list it returns for X restricted to the *)
(* ids that have an item node in the graph; the ids without a node add     *)
(* nothing to the reference user set.                                      *)
(***************************************************************************)
KnownIds(liked_movie_ids) == SelectSeq(liked_movie_ids, LAMBDA x : IsItem(MovieNode(x)))

C26_UnknownLikedIdsAreDropped ==
    (pc = "serve" /\ call.op = "liked") =>
        /\ ret.err = "none"
        /\ ret = get_recommendations_for_liked_movies(KnownIds(call.liked_movie_ids),
                      call.top_n, call.genre_filter, call.rating_limit, call.algorithm,
                      call.prioritize_rating)
        /\ ReferenceUsers(SelectedMovieNodes(call.liked_movie_ids))
               = UNION {UsersAdjacentTo(MovieNode(x)) : x \in Range(KnownIds(call.liked_movie_ids))}

\* a call with a known and an unknown liked id that returns records
C26_Witness ==
    /\ LikedCallDone /\ Returned # <<>>
    /\ \E i \in DOMAIN call.liked_movie_ids : ~HasNode(G, MovieNode(call.liked_movie_ids[i]))
    /\ KnownIds(call.liked_movie_ids) # <<>>

(***************************************************************************)
(* C28: after the startup pipeline, for every edge (u_a, m_b) of the graph *)
(* the rating lookup has an entry for (a, b) and RATINGS_LOOKUP[a][b] is   *)
(* the weight of the edge, for every interaction table, tables with        *)
(* several records of one (user, item) pair included.                      *)
(***************************************************************************)
LookupAgreesWithEdge(a, b) ==
    {UserNode(a), MovieNode(b)} \in DOMAIN G.weight =>
        /\ a \in DOMAIN RATINGS_LOOKUP
        /\ b \in DOMAIN RATINGS_LOOKUP[a]
        /\ RATINGS_LOOKUP[a][b] = G.weight[{UserNode(a), MovieNode(b)}]

C28_LookupEqualsEdgeWeight ==
    pc = "serve" => \A a \in UserIds, b \in LikedIds : LookupAgreesWithEdge(a, b)

\* the same for the pairs with one record in the table
C28_ForPairsRatedOnce ==
    pc = "serve" =>
        \A a \in UserIds, b \in LikedIds :
            Len(RecordsOf(a, b)) <= 1 => LookupAgreesWithEdge(a, b)

(***************************************************************************)
(* C29: the cache-backed get_recommendations_for_liked_movies of           *)
(* src/app.py and the uncached one of src/web/app.py return the same       *)
(* ordered list of item nodes with the same scores, for every graph,       *)
(* liked-id list, top_n, genre filter, rating_limit, algorithm and         *)
(* prioritize_rating.                                                      *)
(***************************************************************************)
NodesAndScores(records) ==
    [i \in DOMAIN records |-> <<records[i].movie_node, records[i].score>>]

\* the call of the state made on the other of the two applications
OtherApplication ==
    IF call.op = "liked"
    THEN web_get_recommendations_for_liked_movies(call.liked_movie_ids, call.top_n,
             call.genre_filter, call.rating_limit, call.algorithm, call.prioritize_rating)
    ELSE get_recommendations_for_liked_movies(call.liked_movie_ids, call.top_n,
             call.genre_filter, call.rating_limit, call.algorithm, call.prioritize_rating)

C29_CachedAndUncachedAgree ==
    (LikedCallDone \/ WebLikedCallDone) =>
        /\ OtherApplication.err = "none"
        /\ NodesAndScores(Returned) = NodesAndScores(OtherApplication.val)

\* the calls on which the two agree: every candidate shares a liker with the
\* liked items, no floor, no genre filter, no item id 0, one record a pair
C29_WhereTheTwoAgree ==
    ( /\ LikedCallDone \/ WebLikedCallDone
      /\ call.rating_limit = 0
      /\ ~GenreFilterActive(call.genre_filter)
      /\ MovieNode(0) \notin DOMAIN MAPPINGS.node_to_movie_id
      /\ \A a \in UserIds, b \in LikedIds : Len(RecordsOf(a, b)) <= 1
      /\ \A m \in Range(MOVIE_NODES) :
             MAPPINGS.node_to_movie_id[m] \in Range(call.liked_movie_ids)
             \/ LikersOfLiked(call.liked_movie_ids) \cap UsersAdjacentTo(m) # {} )
    => NodesAndScores(Returned) = NodesAndScores(OtherApplication.val)

(***************************************************************************)
(* C30: after any sequence of GET /, POST /recommend, GET /recommend and   *)
(* GET /graph requests in one session, the results stored in the session   *)
(* are exactly the list get_recommendations_for_liked_movies computes from *)
(* the liked ids and parameters the most recent POST stored in the same    *)
(* session; GET /recommend renders that list; GET /recommend and           *)
(* GET /graph render their error page exactly when no POST has happened    *)
(* or the most recent POST stored an empty liked list or an empty result   *)
(* list.                                                                   *)
(***************************************************************************)
SessionKeys ==
    {"liked_movies", "top_n", "genre", "rating_limit", "algorithm",
     "prioritize_rating", "results"}

\* no POST has stored anything in the session
NoPostYet == DOMAIN session = {}

\* the list computed from what the session holds
ComputedFromSession ==
    get_recommendations_for_liked_movies(session.liked_movies, session.top_n,
        session.genre, session.rating_limit, session.algorithm,
        session.prioritize_rating)

SessionIsConsistent ==
    pc = "serve" =>
        \/ NoPostYet
        \/ /\ DOMAIN session = SessionKeys
           /\ ComputedFromSession.err = "none"
           /\ session.results = ComputedFromSession.val

NothingToShow ==
    NoPostYet \/ session.liked_movies = <<>> \/ session.results = <<>>

\* a request handled: the step from the idle server to its response
Handled(op) == call = NoCall /\ call'.op = op

\* the POST stores what the form says; every other request, and a POST whose
\* form is refused, leaves the session as it is
SessionFollowsThePosts ==
    /\ Handled("POST /recommend") /\ ret'.err = "none" =>
           /\ session'.liked_movies = ParseLikedMovies(FormGet(call'.form.liked_movies, <<>>)).val
           /\ session'.results = ret'.val.results
           /\ ret'.val.error = <<>>
    /\ session' # session => Handled("POST /recommend") /\ ret'.err = "none"

GetRecommendRenders ==
    Handled("GET /recommend") =>
        /\ ret'.err = "none"
        /\ ret'.val.error # <<>> <=> NothingToShow
        /\ ret'.val.results = IF NothingToShow THEN <<>> ELSE session.results

GetGraphRenders ==
    Handled("GET /graph") =>
        /\ ret'.err = "none"
        /\ ret'.val.error # <<>> <=> NothingToShow

RECURSIVE Iterate(_)
Iterate(n) ==
    IF n = 0 THEN UnitVector(G, call.user_node)
    ELSE RwrUpdate(G, call.user_node, call.rwr_kwargs.alpha, Iterate(n - 1))

\* the walk stopped because the last update changed the vector by less than tol
StoppedBelowTolerance ==
    /\ frame.updates > 0
    /\ FracBelow(L1Change(Iterate(frame.updates - 1), Iterate(frame.updates)),
                 call.rwr_kwargs.tol)

====
